---- MODULE Spec2Model ----
(***************************************************************************)
(* Syn-Syu core (synsyu_core): manifest reconciliation, size estimates,     *)
(* free-space assessment, firmware listing and update planning.            *)
(*                                                                         *)
(* These state machines share this module:                                 *)
(*   SpecResolve  - one call of manifest::resolve_package on an arbitrary  *)
(*                  package / repository info / archive info / oracle       *)
(*                  environment;                                            *)
(*   SpecManifest - manifest::build_manifest, one loop iteration per step;  *)
(*   SpecWide     - build_manifest again, on sizes up to u64::MAX;          *)
(*   SpecSpace    - space::assess_default_paths over the candidate paths;   *)
(*   SpecCapacity - one call of space::ensure_capacity;                     *)
(*   SpecFirmware - collect_fwupd_updates of plan.rs and of fwupd.rs on one *)
(*                  fwupdmgr answer;                                        *)
(*   SpecPlan     - main::run_plan around PlanCommand::execute: the source  *)
(*                  collectors in order, the disk buffer check, the write   *)
(*                  of the plan and the exit code;                          *)
(*   SpecUpdates  - one call of updates::collect_updates.                   *)
(* The machines not started by an initial predicate stay idle.             *)
(*                                                                         *)
(* Version strings are modelled by the integers 1..MaxVersion and the      *)
(* external `vercmp` oracle by the integer order on them.  A u64 is a      *)
(* natural number below 2^WordBits; Option<u64>::None is the value None.   *)
(* Hash strings are sequences of one-character strings.                    *)
(***************************************************************************)
EXTENDS Integers, Sequences, FiniteSets, TLC

\* ------------------------------------------------------------------ bounds
MaxVersion == 3
MaxSize == 2
MaxPkgs == 2
WordBits == 16
MaxFree == 8
MaxHashLen == 17
MaxAurNames == 201

\* ------------------------------------------------------------- data model
None == -1
U64_MAX == 2^WordBits - 1

Versions == 1..MaxVersion
Sizes == (0..MaxSize) \cup {1000}
OptSizes == Sizes \cup {None}

\* InstalledPackage.repository: None, Some("local"), Some(other)
NoRepository == "none"
Repositories == {NoRepository, "local", "pacman"}

\* Option<&VersionInfo>
NoInfo == [some |-> FALSE, version |-> 0, download_size |-> None, installed_size |-> None]
VersionInfo(v, d, i) == [some |-> TRUE, version |-> v, download_size |-> d, installed_size |-> i]
VersionInfos == {VersionInfo(v, d, i) : v \in Versions, d \in OptSizes, i \in OptSizes}
OptVersionInfos == VersionInfos \cup {NoInfo}

InstalledPackage(n, v, r) == [name |-> n, version |-> v, repository |-> r]

\* The three call sites of compare_versions inside resolve_package.
CallSites == {"repo", "aur", "repo_vs_aur"}
\* Oracle environments: no call fails, or the call at one site fails.
OracleFailures == {{}} \cup {{s} : s \in CallSites}

NoNote == "none"
AheadNote == "AUR ahead of repo, but repo chosen per policy"

\* ------------------------------------------------------------- arithmetic
saturating_add(a, b) == IF a > U64_MAX - b THEN U64_MAX ELSE a + b
saturating_mul(a, k) == IF a > U64_MAX \div k THEN U64_MAX ELSE a * k

\* Option::or
OptOr(a, b) == IF a # None THEN a ELSE b
\* Option::unwrap_or(0)
UnwrapOr0(a) == IF a = None THEN 0 ELSE a

\* ------------------------------------------------------------------ oracle
\* pacman::compare_versions: Ok(ordering) of the two versions, or Err when
\* the vercmp invocation fails.
compare_versions(local, remote, fails) ==
    IF fails THEN "Err"
    ELSE IF local < remote THEN "Less"
    ELSE IF local = remote THEN "Equal"
    ELSE "Greater"

NoCmp == "NoCmp"

\* --------------------------------------------------------- resolve_package
Decision(src, target, upd, note) ==
    [ok |-> TRUE, source |-> src, target_version |-> target,
     update_available |-> upd, notes |-> note]
DecisionErr ==
    [ok |-> FALSE, source |-> "Unknown", target_version |-> 0,
     update_available |-> FALSE, notes |-> NoNote]

\* Mutant: an equal version also counts as an update.
UpdateAvailable_NotGreater(cmp) == cmp # "Greater"

\* update_available = (cmp == Ordering::Less)
UpdateAvailable(cmp) == cmp = "Less"

\* Mutant: the repository wins only when strictly ahead (a tie goes to the archive).
RepoChosen_StrictOnly(repo_vs_aur) == repo_vs_aur = "Greater"

\* The arm `Ordering::Greater | Ordering::Equal` of the match on repo_vs_aur.
RepoChosen(repo_vs_aur) == repo_vs_aur \in {"Greater", "Equal"}

\* The advisory note of the repository arm, decided on aur_cmp.
RepoArmNote(aur_cmp) == IF aur_cmp = "Greater" THEN AheadNote ELSE NoNote

\* Mutant: the origin tag is ignored.
UntrackedSource_AlwaysUnknown(package) == "Unknown"

\* The source of a package neither the repository nor the archive knows.
UntrackedSource(package) ==
    IF package.repository = "local" THEN "Local" ELSE "Unknown"

\* Mutant: the arm for a package both sources know is missing.
MatchArm_NoBoth(repo_info, repo_cmp, aur_info, aur_cmp) ==
    IF repo_info.some /\ repo_cmp # NoCmp /\ ~aur_info.some THEN "repo"
    ELSE IF ~repo_info.some /\ aur_info.some /\ aur_cmp # NoCmp THEN "aur"
    ELSE IF ~repo_info.some /\ ~aur_info.some THEN "neither"
    ELSE "catch_all"

\* The arm the match on (repo_info, repo_cmp, aur_info, aur_cmp) takes, the
\* patterns tried in source order.
MatchArm(repo_info, repo_cmp, aur_info, aur_cmp) ==
    IF repo_info.some /\ repo_cmp # NoCmp /\ ~aur_info.some THEN "repo"
    ELSE IF ~repo_info.some /\ aur_info.some /\ aur_cmp # NoCmp THEN "aur"
    ELSE IF repo_info.some /\ repo_cmp # NoCmp /\ aur_info.some /\ aur_cmp # NoCmp
    THEN "both"
    ELSE IF ~repo_info.some /\ ~aur_info.some THEN "neither"
    ELSE "catch_all"

\* The bodies of the arms of that match.
SelectSource(package, repo_info, repo_cmp, aur_info, aur_cmp, fail) ==
    LET arm == MatchArm(repo_info, repo_cmp, aur_info, aur_cmp)
    IN  IF arm = "repo" THEN
            Decision("Pacman", repo_info.version, UpdateAvailable(repo_cmp), NoNote)
        ELSE IF arm = "aur" THEN
            Decision("Aur", aur_info.version, UpdateAvailable(aur_cmp), NoNote)
        ELSE IF arm = "both" THEN
            LET repo_vs_aur == compare_versions(repo_info.version, aur_info.version,
                                                "repo_vs_aur" \in fail)
            IN  IF repo_vs_aur = "Err" THEN DecisionErr
                ELSE IF RepoChosen(repo_vs_aur) THEN
                    Decision("Pacman", repo_info.version, UpdateAvailable(repo_cmp),
                             RepoArmNote(aur_cmp))
                ELSE
                    Decision("Aur", aur_info.version, UpdateAvailable(aur_cmp), NoNote)
        ELSE IF arm = "neither" THEN
            Decision(UntrackedSource(package), package.version, FALSE, NoNote)
        ELSE IF repo_info.some THEN
            Decision("Pacman", repo_info.version, FALSE, NoNote)
        ELSE IF aur_info.some THEN
            Decision("Aur", aur_info.version, FALSE, NoNote)
        ELSE
            Decision("Unknown", package.version, FALSE, NoNote)

\* Mutant: every source falls back to the other source's size.
SelectedSizes_Fallback(source, download_repo, installed_repo, download_aur, installed_aur) ==
    CASE source = "Pacman" ->
            <<OptOr(download_repo, download_aur), OptOr(installed_repo, installed_aur)>>
      [] source = "Aur" ->
            <<OptOr(download_aur, download_repo), OptOr(installed_aur, installed_repo)>>
      [] source = "Local" -> <<None, None>>
      [] OTHER -> <<OptOr(download_repo, download_aur), OptOr(installed_repo, installed_aur)>>

\* (download_selected, installed_selected)
SelectedSizes(source, download_repo, installed_repo, download_aur, installed_aur) ==
    CASE source = "Pacman" -> <<download_repo, installed_repo>>
      [] source = "Aur" -> <<download_aur, installed_aur>>
      [] source = "Local" -> <<None, None>>
      [] OTHER -> <<OptOr(download_repo, download_aur), OptOr(installed_repo, installed_aur)>>

\* Mutant: the archive multiplier is dropped.
InstallEstimate_NoDoubling(installed_selected, download_selected, source) ==
    IF installed_selected # None THEN installed_selected
    ELSE IF download_selected # None THEN download_selected
    ELSE None

\* install_estimate
InstallEstimate(installed_selected, download_selected, source) ==
    IF installed_selected # None THEN installed_selected
    ELSE IF download_selected # None /\ source = "Aur" THEN saturating_mul(download_selected, 2)
    ELSE IF download_selected # None THEN download_selected
    ELSE None

\* Mutant: 1.5 x install is rounded down.
BuildEstimate_Floor(source, install_estimate, download_selected) ==
    IF source = "Pacman" /\ install_estimate # None THEN
        saturating_mul(install_estimate, 3) \div 2
    ELSE IF source = "Aur" /\ download_selected # None THEN
        saturating_mul(download_selected, 8)
    ELSE None

\* build_estimate
BuildEstimate(source, install_estimate, download_selected) ==
    IF source = "Pacman" /\ install_estimate # None THEN
        LET triple == saturating_mul(install_estimate, 3)
        IN  (triple \div 2) + (triple % 2)
    ELSE IF source = "Aur" /\ download_selected # None THEN
        saturating_mul(download_selected, 8)
    ELSE None

\* Mutant: the install estimate is left out of the sum.
TransientEstimate_NoInstall(download_selected, build_estimate, install_estimate) ==
    LET total == saturating_add(UnwrapOr0(download_selected), UnwrapOr0(build_estimate))
    IN  IF total = 0 THEN None ELSE total

\* transient_estimate
TransientEstimate(download_selected, build_estimate, install_estimate) ==
    LET download == UnwrapOr0(download_selected)
        build == UnwrapOr0(build_estimate)
        install == UnwrapOr0(install_estimate)
        total == saturating_add(saturating_add(download, build), install)
    IN  IF total = 0 THEN None ELSE total

ResolveErr == [ok |-> FALSE]

ManifestEntry(package, repo_info, aur_info, d) ==
    LET download_repo == IF repo_info.some THEN repo_info.download_size ELSE None
        installed_repo == IF repo_info.some THEN repo_info.installed_size ELSE None
        download_aur == IF aur_info.some THEN aur_info.download_size ELSE None
        installed_aur == IF aur_info.some THEN aur_info.installed_size ELSE None
        selected == SelectedSizes(d.source, download_repo, installed_repo,
                                  download_aur, installed_aur)
        download_selected == selected[1]
        installed_selected == selected[2]
        install_estimate == InstallEstimate(installed_selected, download_selected, d.source)
        build_estimate == BuildEstimate(d.source, install_estimate, download_selected)
        transient_estimate == TransientEstimate(download_selected, build_estimate,
                                                install_estimate)
    IN  [ok |-> TRUE,
         installed_version |-> package.version,
         version_repo |-> IF repo_info.some THEN repo_info.version ELSE None,
         version_aur |-> IF aur_info.some THEN aur_info.version ELSE None,
         newer_version |-> d.target_version,
         source |-> d.source,
         update_available |-> d.update_available,
         notes |-> d.notes,
         download_size_repo |-> download_repo,
         installed_size_repo |-> installed_repo,
         download_size_aur |-> download_aur,
         installed_size_aur |-> installed_aur,
         download_size_selected |-> download_selected,
         installed_size_selected |-> installed_selected,
         install_size_estimate |-> install_estimate,
         build_size_estimate |-> build_estimate,
         transient_size_estimate |-> transient_estimate]

\* resolve_package: Ok(ManifestEntry) or Err (a failed compare_versions call
\* returns early through `?`).
resolve_package(package, repo_info, aur_info, fail) ==
    LET repo_cmp == IF repo_info.some
                    THEN compare_versions(package.version, repo_info.version, "repo" \in fail)
                    ELSE NoCmp
    IN  IF repo_cmp = "Err" THEN ResolveErr
        ELSE
        LET aur_cmp == IF aur_info.some
                       THEN compare_versions(package.version, aur_info.version, "aur" \in fail)
                       ELSE NoCmp
        IN  IF aur_cmp = "Err" THEN ResolveErr
            ELSE
            LET d == SelectSource(package, repo_info, repo_cmp, aur_info, aur_cmp, fail)
            IN  IF ~d.ok THEN ResolveErr
                ELSE ManifestEntry(package, repo_info, aur_info, d)

\* ------------------------------------------------------------------- state
VARIABLES
    rpc,                \* SpecResolve: "call" before resolve_package runs, "return" after
    rin,                \* SpecResolve: the arguments and the oracle environment
    rout,               \* SpecResolve: the returned Result<ManifestEntry>
    packages,           \* build_manifest: the slice of installed packages
    repo_versions,      \* build_manifest: package name -> repository VersionInfo
    aur_versions,       \* build_manifest: package name -> archive VersionInfo
    min_free_bytes,     \* build_manifest: the configured free-space buffer
    oracle,             \* environment: package name -> failing compare_versions sites
    bpc,                \* build_manifest: "loop", then "ok" (document) or "err"
    idx,                \* position of the for loop in packages
    entries,            \* BTreeMap name -> ManifestEntry built so far
    repo_candidates,
    aur_candidates,
    updates_available,
    download_total,
    build_total,
    install_total,
    transient_total,
    metadata,           \* ManifestMetadata of the returned document
    apc,                \* SpecSpace: "call" before assess_default_paths runs, "return" after
    free,               \* environment: the free_bytes result for each candidate path
    assessed,           \* SpecSpace: the returned Result<SpaceReport>
    fpc,                \* SpecFirmware: the firmware collectors that have returned
    fwupdmgr,           \* environment: the outcome of `fwupdmgr get-updates --json`
    plan_fwupd,         \* (updates, errors) of plan::collect_fwupd_updates
    state_fwupd,        \* Result<Vec<FwupdUpdate>, String> of fwupd::collect_fwupd_updates
    ppc,                \* plan: the step PlanCommand::execute / run_plan is at
    cmd,                \* plan: the PlanCommand flags
    config,             \* plan: min_free_bytes and space policy of the configuration
    manifest,           \* plan: the manifest file read by execute
    upstream,           \* environment: package name -> what its source advertises
    flatpak,            \* environment: the outcome of `flatpak remote-ls --updates`
    sources,            \* plan: metadata.sources
    pacman_updates,
    aur_updates,
    flatpak_updates,
    aur_pkgs,           \* collect_aur_updates: the names not yet requested
    requests,           \* environment: the AUR requests received, in order
    queried,            \* environment: every external query issued, in order
    errors,             \* plan: metadata.errors
    space_meta,         \* plan: metadata.space
    space_blocked,      \* plan: PlanOutput.blocked
    exit_code,          \* run_plan: the outcome of the process
    cpc,                \* SpecCapacity: "call" before ensure_capacity runs, "return" after
    cin,                \* the arguments of ensure_capacity
    cout,               \* the returned Result<(), String>
    upc,                \* SpecUpdates: "call" before collect_updates runs, "return" after
    uin,                \* the manifest file and the UpdatesFilter
    uout                \* the returned Result<Vec<UpdateEntry>>

resolve_vars == <<rpc, rin, rout>>
input_vars == <<packages, repo_versions, aur_versions, min_free_bytes, oracle>>
loop_vars == <<idx, entries, repo_candidates, aur_candidates, updates_available,
               download_total, build_total, install_total, transient_total>>
build_vars == <<input_vars, bpc, loop_vars, metadata>>
space_vars == <<apc, free, assessed>>
\* The variables of the machines other than resolve_package and build_manifest.
firmware_vars == <<fpc, fwupdmgr, plan_fwupd, state_fwupd>>
plan_input_vars == <<cmd, manifest, upstream>>
plan_vars == <<ppc, plan_input_vars, config, flatpak, sources, pacman_updates, aur_updates,
               flatpak_updates, aur_pkgs, requests, queried, errors, space_meta,
               space_blocked, exit_code>>
capacity_vars == <<cpc, cin, cout>>
updates_vars == <<upc, uin, uout>>
ext_vars == <<space_vars, firmware_vars, plan_vars, capacity_vars, updates_vars>>
vars == <<resolve_vars, build_vars, ext_vars>>

NoMetadata == [generated_by |-> "none"]
EmptyMap == [n \in {} |-> NoInfo]

\* build_manifest before its first statement has run on an empty input.
BuildIdle ==
    /\ packages = <<>>
    /\ repo_versions = EmptyMap
    /\ aur_versions = EmptyMap
    /\ min_free_bytes = 0
    /\ oracle = EmptyMap
    /\ bpc = "loop"
    /\ idx = 1
    /\ entries = EmptyMap
    /\ repo_candidates = 0
    /\ aur_candidates = 0
    /\ updates_available = 0
    /\ download_total = 0
    /\ build_total = 0
    /\ install_total = 0
    /\ transient_total = 0
    /\ metadata = NoMetadata

\* Result<u64> of space::free_bytes for one candidate.
FreeOk(bytes) == [ok |-> TRUE, bytes |-> bytes]
FreeErr == [ok |-> FALSE, bytes |-> 0]

\* Option<SpaceReport>; checked_path is the position of the path in candidates.
NoReport == [some |-> FALSE, checked_path |-> 0, available_bytes |-> 0]
SpaceReport(path, bytes) == [some |-> TRUE, checked_path |-> path, available_bytes |-> bytes]

\* Result<SpaceReport>
SpaceOk(report) ==
    [ok |-> TRUE, checked_path |-> report.checked_path,
     available_bytes |-> report.available_bytes]
SpaceFailure == [ok |-> FALSE, checked_path |-> 0, available_bytes |-> 0]

\* assess_default_paths before it has been called.
SpaceIdle ==
    /\ apc = "call"
    /\ free = <<>>
    /\ assessed = SpaceFailure

\* fwupdmgr could not be spawned: nothing was collected.
NoFwupdmgr == [status |-> "spawn_failed", devices |-> <<>>]

\* The firmware collectors before they have been called.
FirmwareIdle ==
    /\ fpc = {}
    /\ fwupdmgr = NoFwupdmgr
    /\ plan_fwupd = [updates |-> <<>>, errors |-> <<>>]
    /\ state_fwupd = [ok |-> TRUE, updates |-> <<>>, error |-> ""]

\* metadata.space before the disk buffer check has run.
NoSpaceMeta == [status |-> "none"]
\* A PlanCommand with every flag unset.
DefaultCommand ==
    [no_repo |-> FALSE, no_aur |-> FALSE, offline |-> FALSE, with_flatpak |-> FALSE,
     with_fwupd |-> FALSE, json |-> FALSE, strict |-> FALSE]

\* The plan command before it has been invoked.
PlanIdle ==
    /\ ppc = "idle"
    /\ cmd = DefaultCommand
    /\ config = [min_free_bytes |-> 0, policy |-> "warn"]
    /\ manifest = [packages |-> <<>>, transient_size_total |-> 0]
    /\ upstream = <<>>
    /\ flatpak = "spawn_failed"
    /\ sources = <<>>
    /\ pacman_updates = <<>>
    /\ aur_updates = <<>>
    /\ flatpak_updates = <<>>
    /\ aur_pkgs = <<>>
    /\ requests = <<>>
    /\ queried = <<>>
    /\ errors = <<>>
    /\ space_meta = NoSpaceMeta
    /\ space_blocked = FALSE
    /\ exit_code = "none"

\* ensure_capacity and collect_updates before they have been called.
CapacityIdle ==
    /\ cpc = "idle"
    /\ cin = <<>>
    /\ cout = [ok |-> TRUE]
UpdatesIdle ==
    /\ upc = "idle"
    /\ uin = <<>>
    /\ uout = [ok |-> FALSE]

\* The machines other than resolve_package and build_manifest at rest.
ExtIdle == SpaceIdle /\ FirmwareIdle /\ PlanIdle /\ CapacityIdle /\ UpdatesIdle

\* ------------------------------------------------- one call of resolve_package
ResolveInputs ==
    [package : {InstalledPackage(1, v, r) : v \in Versions, r \in Repositories},
     repo_info : OptVersionInfos,
     aur_info : OptVersionInfos,
     fail : OracleFailures]

InitResolve ==
    /\ rpc = "call"
    /\ rin \in ResolveInputs
    /\ rout = ResolveErr
    /\ BuildIdle
    /\ ExtIdle

Resolve ==
    /\ rpc = "call"
    /\ rout' = resolve_package(rin.package, rin.repo_info, rin.aur_info, rin.fail)
    /\ rpc' = "return"
    /\ UNCHANGED <<rin, build_vars, ext_vars>>

NextResolve == Resolve

SpecResolve == InitResolve /\ [][NextResolve]_vars

\* ------------------------------------------------------------ build_manifest
\* Package names are 1..MaxPkgs; their numeric order stands for the
\* lexicographic order of the name strings.
Names == 1..MaxPkgs

\* Sequences of distinct names, in any order.
NameLists ==
    {l \in UNION {[1..n -> Names] : n \in 0..MaxPkgs} :
        \A i, j \in DOMAIN l : i # j => l[i] # l[j]}

\* What the sources advertise for a package in a manifest run.
ManifestRepoInfos == {NoInfo, VersionInfo(2, None, None), VersionInfo(2, 2, 1)}
ManifestAurInfos == {NoInfo, VersionInfo(3, 1000, None)}
ManifestInstalled == {1, 3}
ManifestRepositories == {"local", "pacman"}
\* vercmp works for the package, or every invocation for it fails.
ManifestOracles == {{}, CallSites}
MinFreeBytes == {500}
Clock == {0, 1}

InitManifest ==
    /\ rpc = "call"
    /\ rin = [package |-> InstalledPackage(1, 1, NoRepository), repo_info |-> NoInfo,
              aur_info |-> NoInfo, fail |-> {}]
    /\ rout = ResolveErr
    /\ \E names \in NameLists :
         /\ \E version \in [DOMAIN names -> ManifestInstalled],
               repository \in [DOMAIN names -> ManifestRepositories] :
              packages = [i \in DOMAIN names |->
                            InstalledPackage(names[i], version[i], repository[i])]
         /\ repo_versions \in [{names[i] : i \in DOMAIN names} -> ManifestRepoInfos]
         /\ aur_versions \in [{names[i] : i \in DOMAIN names} -> ManifestAurInfos]
         /\ oracle \in [{names[i] : i \in DOMAIN names} -> ManifestOracles]
    /\ min_free_bytes \in MinFreeBytes
    /\ bpc = "loop"
    /\ idx = 1
    /\ entries = EmptyMap
    /\ repo_candidates = 0
    /\ aur_candidates = 0
    /\ updates_available = 0
    /\ download_total = 0
    /\ build_total = 0
    /\ install_total = 0
    /\ transient_total = 0
    /\ metadata = NoMetadata
    /\ ExtIdle

\* Mutant: a present size overwrites the running total.
AddSome_LastWins(total, size) == IF size # None THEN size ELSE total

\* total += size for a present size (`if let Some(size)`).
AddSome(total, size) == IF size # None THEN saturating_add(total, size) ELSE total

\* Mutant: every resolved package is added to the totals.
CountsTowardsTotals_Every(resolved) == TRUE

\* Whether the rollup counts the resolved entry.
CountsTowardsTotals(resolved) == resolved.update_available

\* repo_candidates / aur_candidates after the two `is_some` checks.
CountCandidate(count, info) == IF info.some THEN count + 1 ELSE count

\* The resolved entry of the package the loop is at.
CurrentResolved ==
    LET package == packages[idx]
    IN  resolve_package(package, repo_versions[package.name], aur_versions[package.name],
                        oracle[package.name])

\* One iteration of `for package in packages` whose resolve_package is Ok.
BuildIterate ==
    /\ bpc = "loop"
    /\ idx <= Len(packages)
    /\ LET package == packages[idx]
           resolved == CurrentResolved
           counted == resolved.ok /\ CountsTowardsTotals(resolved)
       IN  /\ resolved.ok
           /\ repo_candidates' = CountCandidate(repo_candidates, repo_versions[package.name])
           /\ aur_candidates' = CountCandidate(aur_candidates, aur_versions[package.name])
           /\ updates_available' = IF counted THEN updates_available + 1
                                   ELSE updates_available
           /\ download_total' = IF counted
                                THEN AddSome(download_total, resolved.download_size_selected)
                                ELSE download_total
           /\ build_total' = IF counted
                             THEN AddSome(build_total, resolved.build_size_estimate)
                             ELSE build_total
           /\ install_total' = IF counted
                               THEN AddSome(install_total, resolved.install_size_estimate)
                               ELSE install_total
           /\ transient_total' = IF counted
                                 THEN AddSome(transient_total, resolved.transient_size_estimate)
                                 ELSE transient_total
           /\ entries' = [n \in DOMAIN entries \cup {package.name} |->
                            IF n = package.name THEN resolved ELSE entries[n]]
    /\ idx' = idx + 1
    /\ UNCHANGED <<resolve_vars, input_vars, bpc, metadata, ext_vars>>

\* The iteration whose resolve_package is Err: `?` returns it from
\* build_manifest; no document is produced.
BuildAbort ==
    /\ bpc = "loop"
    /\ idx <= Len(packages)
    /\ ~CurrentResolved.ok
    /\ LET package == packages[idx]
       IN  /\ repo_candidates' = CountCandidate(repo_candidates, repo_versions[package.name])
           /\ aur_candidates' = CountCandidate(aur_candidates, aur_versions[package.name])
    /\ bpc' = "err"
    /\ UNCHANGED <<resolve_vars, input_vars, idx, entries, updates_available,
                   download_total, build_total, install_total, transient_total, metadata,
                   ext_vars>>

\* After the loop: the metadata block and Ok(ManifestDocument).
BuildFinish ==
    /\ bpc = "loop"
    /\ idx > Len(packages)
    /\ \E now \in Clock :
         metadata' = [generated_at |-> now,
                      generated_by |-> "synsyu_core",
                      total_packages |-> Len(packages),
                      repo_candidates |-> repo_candidates,
                      aur_candidates |-> aur_candidates,
                      updates_available |-> updates_available,
                      download_size_total |-> download_total,
                      build_size_total |-> build_total,
                      install_size_total |-> install_total,
                      transient_size_total |-> transient_total,
                      min_free_bytes |-> min_free_bytes,
                      required_space_total |-> saturating_add(transient_total, min_free_bytes),
                      available_space_bytes |-> 0,
                      space_checked_path |-> ""]
    /\ bpc' = "ok"
    /\ UNCHANGED <<resolve_vars, input_vars, loop_vars, ext_vars>>

NextManifest == BuildIterate \/ BuildAbort \/ BuildFinish

SpecManifest == InitManifest /\ [][NextManifest]_vars

\* ------------------------------------------------- claims on resolve_package
\* resolve_package returned Ok(entry).
Resolved == rpc = "return" /\ rout.ok
RepoOnly == rin.repo_info.some /\ ~rin.aur_info.some
AurOnly == ~rin.repo_info.some /\ rin.aur_info.some
BothInfo == rin.repo_info.some /\ rin.aur_info.some
NoSourceInfo == ~rin.repo_info.some /\ ~rin.aur_info.some
Installed == rin.package.version

\* C1: when exactly one upstream source has a VersionInfo, the resolved source
\* is that source, newer_version is its version, and update_available holds
\* iff the installed version is strictly below that version.
C1_SingleSource ==
    Resolved =>
        /\ RepoOnly =>
            /\ rout.source = "Pacman"
            /\ rout.newer_version = rin.repo_info.version
            /\ rout.update_available <=> (Installed < rin.repo_info.version)
        /\ AurOnly =>
            /\ rout.source = "Aur"
            /\ rout.newer_version = rin.aur_info.version
            /\ rout.update_available <=> (Installed < rin.aur_info.version)

C1_Witness ==
    /\ Resolved
    /\ AurOnly
    /\ Installed = rin.aur_info.version
    /\ ~rout.update_available

\* C2: when both sources have a VersionInfo, the source is Pacman whenever the
\* repository version is >= the archive version (ties included) and Aur exactly
\* when the archive version is strictly greater; newer_version is the chosen
\* source's version and update_available is (installed < chosen version).
C2_BothSources ==
    (Resolved /\ BothInfo) =>
        LET repo_v == rin.repo_info.version
            aur_v == rin.aur_info.version
            chosen == IF repo_v >= aur_v THEN repo_v ELSE aur_v
        IN  /\ (repo_v >= aur_v) => rout.source = "Pacman"
            /\ (rout.source = "Aur") <=> (aur_v > repo_v)
            /\ rout.newer_version = chosen
            /\ rout.update_available <=> (Installed < chosen)

C2_Witness ==
    /\ Resolved
    /\ BothInfo
    /\ rin.repo_info.version = rin.aur_info.version
    /\ rout.source = "Pacman"
    /\ rout.update_available

\* C3 (as stated): with both sources and the repository chosen, the advisory
\* note is attached exactly when the archive version is strictly greater than
\* the repository version; in every other case notes is absent.
C3_NoteIffArchiveAhead ==
    Resolved =>
        (rout.notes = AheadNote) <=>
            /\ BothInfo
            /\ rout.source = "Pacman"
            /\ rin.aur_info.version > rin.repo_info.version

\* C4: when neither source has info, the source is Local if the origin tag is
\* "local" and Unknown otherwise, update_available is false and newer_version
\* is the installed version.
C4_NoSource ==
    (rpc = "return" /\ NoSourceInfo) =>
        /\ rout.ok
        /\ rout.source = (IF rin.package.repository = "local" THEN "Local" ELSE "Unknown")
        /\ ~rout.update_available
        /\ rout.newer_version = Installed

C4_Witness ==
    /\ Resolved
    /\ NoSourceInfo
    /\ rin.package.repository = "local"
    /\ rout.source = "Local"

\* The chosen source's and the other source's VersionInfo of the returned entry.
ChosenInfo == IF rout.source = "Pacman" THEN rin.repo_info
              ELSE IF rout.source = "Aur" THEN rin.aur_info ELSE NoInfo
OtherInfo == IF rout.source = "Pacman" THEN rin.aur_info
             ELSE IF rout.source = "Aur" THEN rin.repo_info ELSE NoInfo

\* C6 (as stated): the selected sizes are the chosen source's, falling back to
\* the other source's value when the chosen source lacks that size.
C6_SelectedWithFallback ==
    Resolved =>
        /\ rout.download_size_selected =
               OptOr(ChosenInfo.download_size, OtherInfo.download_size)
        /\ rout.installed_size_selected =
               OptOr(ChosenInfo.installed_size, OtherInfo.installed_size)

\* C6 (amended): the selected sizes are exactly the chosen source's sizes
\* (repository for Pacman, archive for Aur, absent for Local and Unknown); a
\* size the chosen source lacks stays absent even if the other source has it.
C6_SelectedFromChosenOnly ==
    Resolved =>
        /\ rout.download_size_selected = ChosenInfo.download_size
        /\ rout.installed_size_selected = ChosenInfo.installed_size

C6_Witness ==
    /\ Resolved
    /\ rout.source = "Pacman"
    /\ rin.repo_info.download_size = None
    /\ rin.aur_info.some
    /\ rin.aur_info.download_size # None
    /\ rout.download_size_selected = None

\* C7: install_size_estimate is the selected installed size when known;
\* otherwise 2 x download for Aur and the download size for any other source
\* when the selected download size is known; absent when neither is known.
C7_InstallEstimate ==
    Resolved =>
        LET ins == rout.installed_size_selected
            dl == rout.download_size_selected
        IN  /\ ins # None => rout.install_size_estimate = ins
            /\ (ins = None /\ dl # None /\ rout.source = "Aur") =>
                   rout.install_size_estimate = 2 * dl
            /\ (ins = None /\ dl # None /\ rout.source # "Aur") =>
                   rout.install_size_estimate = dl
            /\ (rout.install_size_estimate = None) <=> (ins = None /\ dl = None)

C7_Witness ==
    /\ Resolved
    /\ rout.source = "Aur"
    /\ rout.installed_size_selected = None
    /\ rout.download_size_selected = 1000
    /\ rout.install_size_estimate = 2000

\* n = ceil(3 x / 2)
IsCeilOneAndHalf(n, x) == 2 * n >= 3 * x /\ 2 * (n - 1) < 3 * x

\* C8: build_size_estimate is ceil(1.5 x install_size_estimate) for a Pacman
\* entry with a known install estimate, 8 x the selected download size for an
\* Aur entry with a known download size, and absent in every other case.
C8_BuildEstimate ==
    Resolved =>
        LET pacman_case == rout.source = "Pacman" /\ rout.install_size_estimate # None
            aur_case == rout.source = "Aur" /\ rout.download_size_selected # None
        IN  /\ pacman_case =>
                   IsCeilOneAndHalf(rout.build_size_estimate, rout.install_size_estimate)
            /\ aur_case => rout.build_size_estimate = 8 * rout.download_size_selected
            /\ (~pacman_case /\ ~aur_case) => rout.build_size_estimate = None

C8_Witness ==
    /\ Resolved
    /\ rout.source = "Pacman"
    /\ rout.install_size_estimate = 1
    /\ rout.build_size_estimate = 2

\* C9: transient_size_estimate is download + build + install with absent
\* components counted as 0, absent exactly when that sum is zero; an Aur
\* entry with download 1000 and no installed size gets 2000 / 8000 / 11000.
C9_TransientEstimate ==
    Resolved =>
        LET sum == UnwrapOr0(rout.download_size_selected)
                   + UnwrapOr0(rout.build_size_estimate)
                   + UnwrapOr0(rout.install_size_estimate)
        IN  /\ sum = 0 => rout.transient_size_estimate = None
            /\ sum # 0 => rout.transient_size_estimate = sum
            /\ (/\ rout.source = "Aur"
                /\ rout.download_size_selected = 1000
                /\ rout.installed_size_selected = None) =>
                   /\ rout.install_size_estimate = 2000
                   /\ rout.build_size_estimate = 8000
                   /\ rout.transient_size_estimate = 11000

C9_Witness ==
    /\ Resolved
    /\ rout.source = "Aur"
    /\ rout.download_size_selected = 1000
    /\ rout.installed_size_selected = None
    /\ rout.transient_size_estimate = 11000

C9_WitnessZero ==
    /\ Resolved
    /\ rout.source = "Pacman"
    /\ rout.download_size_selected = 0
    /\ rout.install_size_estimate = 0
    /\ rout.transient_size_estimate = None

\* -------------------------------------------------- claims on build_manifest
\* build_manifest returned Ok(document).
Built == bpc = "ok"
PackageNames == {packages[i].name : i \in DOMAIN packages}
\* compare_versions fails while the package is resolved.
OracleFailsFor(package) ==
    ~resolve_package(package, repo_versions[package.name], aur_versions[package.name],
                     oracle[package.name]).ok

\* C5 (as stated): a Version Oracle failure for one package is a per-package
\* error: build_manifest never aborts, the failed package gets an entry with
\* source Unknown, and every package of the input is present in the manifest.
C5_OracleFailureIsPerPackage ==
    /\ bpc # "err"
    /\ Built =>
        \A i \in DOMAIN packages :
            /\ packages[i].name \in DOMAIN entries
            /\ OracleFailsFor(packages[i]) => entries[packages[i].name].source = "Unknown"

\* The packages of the manifest whose update_available is true.
Updatable == {n \in DOMAIN entries : entries[n].update_available}

RECURSIVE SumField(_, _)
\* Sum of a per-entry size field over a set of package names, absent as 0.
SumField(S, field) ==
    IF S = {} THEN 0
    ELSE LET n == CHOOSE x \in S : TRUE
         IN  UnwrapOr0(entries[n][field]) + SumField(S \ {n}, field)

\* C10: in the returned document each size total is the sum of the
\* corresponding per-entry field over exactly the packages whose
\* update_available is true, and updates_available is their number.
C10_TotalsOverUpdates ==
    Built =>
        /\ DOMAIN entries = PackageNames
        /\ metadata.download_size_total = SumField(Updatable, "download_size_selected")
        /\ metadata.build_size_total = SumField(Updatable, "build_size_estimate")
        /\ metadata.install_size_total = SumField(Updatable, "install_size_estimate")
        /\ metadata.transient_size_total = SumField(Updatable, "transient_size_estimate")
        /\ metadata.updates_available = Cardinality(Updatable)

C10_Witness ==
    /\ Built
    /\ Cardinality(Updatable) = 1
    /\ \E n \in DOMAIN entries \ Updatable : entries[n].transient_size_estimate # None
    /\ metadata.transient_size_total = 11000
    /\ metadata.download_size_total = 1000

\* ------------------------------------------- determinism of build_manifest
\* The accumulators of build_manifest before the loop.
EmptyRollup ==
    [ok |-> TRUE, entries |-> EmptyMap, repo_candidates |-> 0, aur_candidates |-> 0,
     updates_available |-> 0, download_total |-> 0, build_total |-> 0,
     install_total |-> 0, transient_total |-> 0]

\* The loop body of build_manifest applied to the accumulators.
RollupStep(acc, package) ==
    LET resolved == resolve_package(package, repo_versions[package.name],
                                    aur_versions[package.name], oracle[package.name])
        counted == resolved.ok /\ CountsTowardsTotals(resolved)
        total(t, size) == IF counted THEN AddSome(t, size) ELSE t
    IN  IF ~acc.ok \/ ~resolved.ok THEN [acc EXCEPT !.ok = FALSE]
        ELSE [ok |-> TRUE,
              entries |-> [n \in DOMAIN acc.entries \cup {package.name} |->
                             IF n = package.name THEN resolved ELSE acc.entries[n]],
              repo_candidates |->
                  CountCandidate(acc.repo_candidates, repo_versions[package.name]),
              aur_candidates |->
                  CountCandidate(acc.aur_candidates, aur_versions[package.name]),
              updates_available |-> IF counted THEN acc.updates_available + 1
                                    ELSE acc.updates_available,
              download_total |-> total(acc.download_total, resolved.download_size_selected),
              build_total |-> total(acc.build_total, resolved.build_size_estimate),
              install_total |-> total(acc.install_total, resolved.install_size_estimate),
              transient_total |->
                  total(acc.transient_total, resolved.transient_size_estimate)]

RECURSIVE Rollup(_, _)
\* The accumulators after the loop has run over the first n packages of list.
Rollup(list, n) ==
    IF n = 0 THEN EmptyRollup ELSE RollupStep(Rollup(list, n - 1), list[n])

RECURSIVE BTreeKeys(_)
\* BTreeMap iteration: the keys in ascending order.
BTreeKeys(S) ==
    IF S = {} THEN <<>>
    ELSE LET least == CHOOSE x \in S : \A y \in S : x <= y
         IN  <<least>> \o BTreeKeys(S \ {least})

\* The metadata block build_manifest writes from the accumulators, before
\* generated_at is stamped.
RollupMetadata(acc, total_packages) ==
    [generated_by |-> "synsyu_core",
     total_packages |-> total_packages,
     repo_candidates |-> acc.repo_candidates,
     aur_candidates |-> acc.aur_candidates,
     updates_available |-> acc.updates_available,
     download_size_total |-> acc.download_total,
     build_size_total |-> acc.build_total,
     install_size_total |-> acc.install_total,
     transient_size_total |-> acc.transient_total,
     min_free_bytes |-> min_free_bytes,
     required_space_total |-> saturating_add(acc.transient_total, min_free_bytes),
     available_space_bytes |-> 0,
     space_checked_path |-> ""]

\* The serialised document without generated_at: the packages in map order
\* and the remaining metadata fields.
Document(map, meta) ==
    [packages |-> [i \in 1..Cardinality(DOMAIN map) |->
                     <<BTreeKeys(DOMAIN map)[i], map[BTreeKeys(DOMAIN map)[i]]>>],
     metadata |-> [f \in DOMAIN meta \ {"generated_at"} |-> meta[f]]]

\* What build_manifest returns for the packages given in the order list.
DocumentFor(list) ==
    LET acc == Rollup(list, Len(list))
    IN  IF acc.ok THEN Document(acc.entries, RollupMetadata(acc, Len(list)))
        ELSE ResolveErr

\* The input slice rearranged into ascending name order.
SortedByName ==
    [i \in DOMAIN packages |->
        CHOOSE package \in {packages[k] : k \in DOMAIN packages} :
            package.name = BTreeKeys(PackageNames)[i]]

\* C11: build_manifest is deterministic in its input set: whatever the order
\* of the input slice, the run returns the document the name-ordered slice
\* yields, generated_at apart (or fails when that one fails), and the
\* packages of the document are listed in ascending name order.
C11_OrderIndependent ==
    /\ Built =>
        /\ DocumentFor(SortedByName) = Document(entries, metadata)
        /\ \A i, j \in DOMAIN Document(entries, metadata).packages :
              i < j => Document(entries, metadata).packages[i][1]
                         < Document(entries, metadata).packages[j][1]
    /\ bpc = "err" => DocumentFor(SortedByName) = ResolveErr

\* Two updatable packages with different sizes, supplied in descending name order.
C11_Witness ==
    /\ Built
    /\ Len(packages) = 2
    /\ packages[1].name > packages[2].name
    /\ Cardinality(Updatable) = 2
    /\ entries[1].download_size_selected # entries[2].download_size_selected
    /\ Document(entries, metadata).packages[1][1] = 1

\* ---------------------------------------------------- assess_default_paths
\* The candidate paths, in the order assess_default_paths examines them.
candidates == <<"/var/cache/pacman/pkg", "/var/tmp", "/tmp", "/">>

\* Mutant: a later candidate with equally few bytes replaces the report.
KeepsCurrent_Strict(bytes, current) == current.some /\ bytes > current.available_bytes

\* The arm `Some(current) if bytes >= current.available_bytes => {}`.
KeepsCurrent(bytes, current) == current.some /\ bytes >= current.available_bytes

\* Mutant: a failed assessment is reported as zero bytes on the last candidate.
AssessFailed_ZeroReport == SpaceOk(SpaceReport(Len(candidates), 0))

\* Err(..) of assess_default_paths: the propagated query error or the
\* "Unable to determine available disk space" error.
AssessFailed == SpaceFailure

RECURSIVE AssessFrom(_, _, _)
\* The for loop of assess_default_paths from candidate i on, then the return.
AssessFrom(results, i, report) ==
    IF i > Len(candidates) THEN
        IF report.some THEN SpaceOk(report) ELSE AssessFailed
    ELSE IF results[i].ok THEN
        IF KeepsCurrent(results[i].bytes, report)
        THEN AssessFrom(results, i + 1, report)
        ELSE AssessFrom(results, i + 1, SpaceReport(i, results[i].bytes))
    ELSE IF ~report.some THEN AssessFailed
    ELSE AssessFrom(results, i + 1, report)

\* space::assess_default_paths under the given free_bytes results.
assess_default_paths(results) == AssessFrom(results, 1, NoReport)

\* Available bytes a filesystem may report, in steps of 100.
FreeBytes == {100 * k : k \in 0..MaxFree}
FreeResults == {FreeOk(b) : b \in FreeBytes} \cup {FreeErr}

InitSpace ==
    /\ apc = "call"
    /\ free \in [DOMAIN candidates -> FreeResults]
    /\ assessed = SpaceFailure
    /\ rpc = "call"
    /\ rin = [package |-> InstalledPackage(1, 1, NoRepository), repo_info |-> NoInfo,
              aur_info |-> NoInfo, fail |-> {}]
    /\ rout = ResolveErr
    /\ BuildIdle
    /\ FirmwareIdle
    /\ PlanIdle
    /\ CapacityIdle
    /\ UpdatesIdle

Assess ==
    /\ apc = "call"
    /\ free # <<>>
    /\ assessed' = assess_default_paths(free)
    /\ apc' = "return"
    /\ UNCHANGED <<resolve_vars, build_vars, free, firmware_vars, plan_vars,
                   capacity_vars, updates_vars>>

NextSpace == Assess

SpecSpace == InitSpace /\ [][NextSpace]_vars

\* ------------------------------------------- claims on assess_default_paths
Assessed == apc = "return"
AllQueriesSucceed == \A i \in DOMAIN free : free[i].ok
AllQueriesFail == \A i \in DOMAIN free : ~free[i].ok
MinFreeOf(S) == CHOOSE b \in {free[i].bytes : i \in S} : \A j \in S : b <= free[j].bytes

\* C12: when every candidate query succeeds, assess_default_paths returns the
\* minimum of the available bytes, and checked_path is the earliest candidate
\* that attains it.
C12_MinimumEarliest ==
    (Assessed /\ AllQueriesSucceed) =>
        /\ assessed.ok
        /\ assessed.available_bytes = MinFreeOf(DOMAIN free)
        /\ free[assessed.checked_path].bytes = assessed.available_bytes
        /\ \A i \in DOMAIN free :
              i < assessed.checked_path => free[i].bytes > assessed.available_bytes

\* Candidates reporting 500, 300, 800 and again 300: the answer is 300 on the
\* second candidate, not on the fourth.
C12_Witness ==
    /\ Assessed
    /\ free = <<FreeOk(500), FreeOk(300), FreeOk(800), FreeOk(300)>>
    /\ assessed.ok
    /\ assessed.available_bytes = 300
    /\ assessed.checked_path = 2

\* C13: when the query fails for every candidate, assess_default_paths
\* returns an error, never a report.
C13_AllFailIsError ==
    (Assessed /\ AllQueriesFail) => ~assessed.ok

C13_Witness ==
    /\ Assessed
    /\ AllQueriesFail
    /\ assessed = SpaceFailure

\* ------------------------------------------------------ firmware collectors
\* A hash or checksum string is the sequence of its characters; version,
\* summary and trust strings are compared whole and stay TLA+ strings.
HASH_LEN == 16

Str(n, c) == [i \in 1..n |-> c]

RECURSIVE TrimStart(_)
TrimStart(s) == IF s # <<>> /\ Head(s) = " " THEN TrimStart(Tail(s)) ELSE s
RECURSIVE TrimEnd(_)
TrimEnd(s) ==
    IF s # <<>> /\ s[Len(s)] = " " THEN TrimEnd(SubSeq(s, 1, Len(s) - 1)) ELSE s
\* str::trim
trim(s) == TrimEnd(TrimStart(s))

\* truncate_hash: the trimmed value, cut to its first 16 characters.
truncate_hash(value) ==
    LET trimmed == trim(value)
    IN  IF Len(trimmed) <= HASH_LEN THEN trimmed ELSE SubSeq(trimmed, 1, HASH_LEN)

\* Option<T> of a field of the fwupdmgr document.
Absent == [some |-> FALSE, value |-> <<>>]
Present(v) == [some |-> TRUE, value |-> v]

RECURSIVE FindNonEmpty(_)
\* list.into_iter().find(|s| !s.is_empty())
FindNonEmpty(list) ==
    IF list = <<>> THEN Absent
    ELSE IF Head(list) # <<>> THEN Present(Head(list))
    ELSE FindNonEmpty(Tail(list))

\* select_checksum: Checksum when present, else the first non-empty entry of
\* Checksums, else the first non-empty entry of checksums, else "".
select_checksum(checksum, checksums, checksums_lower) ==
    IF checksum.some THEN checksum.value
    ELSE IF checksums.some /\ FindNonEmpty(checksums.value).some
         THEN FindNonEmpty(checksums.value).value
    ELSE IF checksums_lower.some /\ FindNonEmpty(checksums_lower.value).some
         THEN FindNonEmpty(checksums_lower.value).value
    ELSE <<>>

\* join_trust: the non-empty flags of the first present list (kept as the
\* list of the parts joined by ","), None when there are none.
join_trust(primary, alt) ==
    LET list == IF primary.some THEN primary ELSE alt
        filtered == SelectSeq(list.value, LAMBDA f : f # "")
    IN  IF ~list.some \/ filtered = <<>> THEN Absent ELSE Present(filtered)

\* The trust string of a release: the joined flags, else "signed"/"unsigned"
\* from Signed, else "".
ReleaseTrust(rel) ==
    LET joined == join_trust(rel.trust_flags, rel.trust_flags_lower)
    IN  IF joined.some THEN joined.value
        ELSE IF rel.signed.some
             THEN IF rel.signed.value THEN <<"signed">> ELSE <<"unsigned">>
        ELSE <<>>

\* Mutant: only releases without a version are skipped.
SkipsRelease_OnlyEmpty(installed, available) == available = ""

\* The two `continue` conditions of the release loop.
SkipsRelease(installed, available) ==
    available = "" \/ (installed # "" /\ installed = available)

\* The update entry pushed for a release that is not skipped.
FwupdUpdate(dev, rel) ==
    [device |-> dev.device_id,
     name |-> dev.name,
     installed |-> dev.installed,
     available |-> rel.version,
     summary |-> rel.summary,
     available_hash |->
         truncate_hash(select_checksum(rel.checksum, rel.checksums, rel.checksums_lower)),
     trust |-> ReleaseTrust(rel),
     source |-> "fwupd"]

RECURSIVE ReleaseUpdates(_, _)
\* `for rel in releases` of one device.
ReleaseUpdates(dev, releases) ==
    IF releases = <<>> THEN <<>>
    ELSE IF SkipsRelease(dev.installed, Head(releases).version)
         THEN ReleaseUpdates(dev, Tail(releases))
    ELSE <<FwupdUpdate(dev, Head(releases))>> \o ReleaseUpdates(dev, Tail(releases))

RECURSIVE DeviceUpdates(_)
\* `for dev in devices`.
DeviceUpdates(devices) ==
    IF devices = <<>> THEN <<>>
    ELSE ReleaseUpdates(Head(devices), Head(devices).releases)
            \o DeviceUpdates(Tail(devices))

\* An entry of the plan's error list: the source that reported it, what
\* failed, and the package it is about (0 when it is about no package).
ErrorEntry(origin, kind, subject) == [origin |-> origin, kind |-> kind, subject |-> subject]

\* plan::collect_fwupd_updates: (updates, errors).
collect_fwupd_updates(output) ==
    IF output.status = "spawn_failed"
    THEN [updates |-> <<>>, errors |-> <<ErrorEntry("fwupd", "failed to spawn", 0)>>]
    ELSE IF output.status = "exit_failure"
    THEN [updates |-> <<>>, errors |-> <<ErrorEntry("fwupd", "stderr", 0)>>]
    ELSE IF output.status = "parse_failed"
    THEN [updates |-> <<>>, errors |-> <<ErrorEntry("fwupd", "parse failed", 0)>>]
    ELSE [updates |-> DeviceUpdates(output.devices), errors |-> <<>>]

\* fwupd::collect_fwupd_updates: Ok(updates) or Err(message).
fwupd_collect_fwupd_updates(output) ==
    IF output.status = "spawn_failed"
    THEN [ok |-> FALSE, updates |-> <<>>, error |-> "failed to spawn fwupdmgr"]
    ELSE IF output.status = "exit_failure"
    THEN [ok |-> FALSE, updates |-> <<>>, error |-> "stderr"]
    ELSE IF output.status = "parse_failed"
    THEN [ok |-> FALSE, updates |-> <<>>, error |-> "parse failed"]
    ELSE [ok |-> TRUE, updates |-> DeviceUpdates(output.devices), error |-> ""]

\* Option<bool> of the Signed field.
NoSigned == [some |-> FALSE, value |-> FALSE]

\* Version strings a device or a release may carry ("" when the field is absent).
FwVersions == {"", "1.0", "2.0"}
Summaries == {"", "fix"}

\* Checksum strings: empty, blank, short, padded, exactly 16 characters, longer.
HashStrings ==
    {<<>>, <<" ">>, Str(2, "a"), <<" ">> \o Str(2, "b") \o <<" ", " ">>,
     Str(HASH_LEN, "c"), Str(MaxHashLen, "d"), <<" ">> \o Str(MaxHashLen, "e")}
OptHashStrings == {Absent} \cup {Present(h) : h \in HashStrings}

\* Checksums / checksums lists.
HashLists(c) ==
    {Absent, Present(<<>>), Present(<<<<>>>>), Present(<<<<>>, Str(2, c)>>),
     Present(<<Str(2, c)>>), Present(<<Str(MaxHashLen, c), <<>>>>), Present(<<<<" ">>>>)}

ChecksumFields == [checksum : OptHashStrings, checksums : HashLists("f"),
                   checksums_lower : HashLists("g")]
FewChecksumFields ==
    {[checksum |-> Absent, checksums |-> Absent, checksums_lower |-> Absent],
     [checksum |-> Present(Str(2, "a")), checksums |-> Absent, checksums_lower |-> Absent],
     [checksum |-> Absent, checksums |-> Present(<<<<>>, Str(2, "f")>>),
      checksums_lower |-> Absent],
     [checksum |-> Present(<<>>), checksums |-> Present(<<Str(2, "f")>>),
      checksums_lower |-> Absent]}

TrustFields ==
    {[trust_flags |-> Absent, trust_flags_lower |-> Absent, signed |-> NoSigned],
     [trust_flags |-> Present(<<"">>), trust_flags_lower |-> Present(<<"b">>),
      signed |-> [some |-> TRUE, value |-> TRUE]],
     [trust_flags |-> Present(<<"a", "", "b">>), trust_flags_lower |-> Absent,
      signed |-> NoSigned],
     [trust_flags |-> Absent, trust_flags_lower |-> Present(<<"c">>),
      signed |-> [some |-> TRUE, value |-> FALSE]]}

\* FwupdUpdateRelease
Release(version, summary, sums, trust) ==
    [version |-> version, summary |-> summary,
     checksum |-> sums.checksum, checksums |-> sums.checksums,
     checksums_lower |-> sums.checksums_lower,
     trust_flags |-> trust.trust_flags, trust_flags_lower |-> trust.trust_flags_lower,
     signed |-> trust.signed]

Releases ==
    {Release(v, s, c, t) : v \in FwVersions, s \in Summaries,
                           c \in FewChecksumFields, t \in TrustFields}
\* One newer release with every combination of checksum fields.
ChecksumReleases ==
    {Release("2.0", "fix", c, CHOOSE t \in TrustFields : ~t.trust_flags.some /\ ~t.signed.some)
        : c \in ChecksumFields}

\* FwupdUpdateDevice
Device(id, installed, releases) ==
    [device_id |-> id, name |-> id, installed |-> installed, releases |-> releases]

\* The device lists fwupdmgr may report.
DeviceLists ==
    {<<>>}
    \cup {<<Device("dev0", i, rs)>> :
            i \in FwVersions, rs \in UNION {[1..n -> Releases] : n \in 0..2}}
    \cup {<<Device("dev0", "1.0", <<r>>)>> : r \in ChecksumReleases}
    \cup {<<Device("dev0", i, <<Release(v, "", c, t)>>), Device("dev1", j, <<Release(w, "", c, t)>>)>> :
            i \in FwVersions, j \in FwVersions, v \in FwVersions, w \in FwVersions,
            c \in {CHOOSE x \in FewChecksumFields : x.checksum.some /\ x.checksum.value # <<>>},
            t \in {CHOOSE x \in TrustFields : x.trust_flags.some /\ ~x.signed.some}}

FwupdmgrOutputs ==
    {[status |-> st, devices |-> <<>>] : st \in {"spawn_failed", "exit_failure", "parse_failed"}}
    \cup {[status |-> "ok", devices |-> ds] : ds \in DeviceLists}

InitFirmware ==
    /\ fpc = {}
    /\ fwupdmgr \in FwupdmgrOutputs
    /\ plan_fwupd = [updates |-> <<>>, errors |-> <<>>]
    /\ state_fwupd = [ok |-> TRUE, updates |-> <<>>, error |-> ""]
    /\ rpc = "call"
    /\ rin = [package |-> InstalledPackage(1, 1, NoRepository), repo_info |-> NoInfo,
              aur_info |-> NoInfo, fail |-> {}]
    /\ rout = ResolveErr
    /\ BuildIdle
    /\ SpaceIdle
    /\ PlanIdle
    /\ CapacityIdle
    /\ UpdatesIdle

\* plan::collect_fwupd_updates runs.
PlanCollectFwupd ==
    /\ "plan" \notin fpc
    /\ plan_fwupd' = collect_fwupd_updates(fwupdmgr)
    /\ fpc' = fpc \cup {"plan"}
    /\ UNCHANGED <<resolve_vars, build_vars, space_vars, plan_vars, fwupdmgr, state_fwupd,
                   capacity_vars, updates_vars>>

\* fwupd::collect_fwupd_updates runs.
StateCollectFwupd ==
    /\ "fwupd" \notin fpc
    /\ state_fwupd' = fwupd_collect_fwupd_updates(fwupdmgr)
    /\ fpc' = fpc \cup {"fwupd"}
    /\ UNCHANGED <<resolve_vars, build_vars, space_vars, plan_vars, fwupdmgr, plan_fwupd,
                   capacity_vars, updates_vars>>

NextFirmware == PlanCollectFwupd \/ StateCollectFwupd

SpecFirmware == InitFirmware /\ [][NextFirmware]_vars

\* ------------------------------------------- claims on the firmware collectors
\* The update lists of the firmware collectors that have returned.
FirmwareLists ==
    {plan_fwupd.updates : c \in fpc \cap {"plan"}}
        \cup {state_fwupd.updates : c \in fpc \cap {"fwupd"}}

RECURSIVE AllReleases(_)
\* The (device, release) pairs of a device list, in document order.
AllReleases(devices) ==
    IF devices = <<>> THEN <<>>
    ELSE [i \in DOMAIN Head(devices).releases |->
            [dev |-> Head(devices), rel |-> Head(devices).releases[i]]]
         \o AllReleases(Tail(devices))

\* C19: a release whose version equals the installed version of its device
\* never appears in the update list of either firmware collector, whatever
\* its summary, checksum and trust fields are; a release with an empty
\* version never appears either.
C19_EqualVersionNeverListed ==
    \A updates \in FirmwareLists :
        /\ \A i \in DOMAIN updates :
              updates[i].available # "" /\ updates[i].available # updates[i].installed
        /\ \A k \in DOMAIN AllReleases(fwupdmgr.devices) :
              LET pair == AllReleases(fwupdmgr.devices)[k]
              IN  (pair.rel.version = "" \/ pair.rel.version = pair.dev.installed) =>
                     ~\E i \in DOMAIN updates :
                         /\ updates[i].device = pair.dev.device_id
                         /\ updates[i].available = pair.rel.version

\* A device on 1.0 offering 1.0 again, with a summary, a checksum and trust
\* flags, and then 2.0: only 2.0 is listed, by both collectors.
C19_Witness ==
    /\ fpc = {"plan", "fwupd"}
    /\ fwupdmgr.status = "ok"
    /\ Len(fwupdmgr.devices) = 1
    /\ fwupdmgr.devices[1].installed = "1.0"
    /\ Len(fwupdmgr.devices[1].releases) = 2
    /\ fwupdmgr.devices[1].releases[1].version = "1.0"
    /\ fwupdmgr.devices[1].releases[1].summary = "fix"
    /\ fwupdmgr.devices[1].releases[1].checksum = Present(Str(2, "a"))
    /\ fwupdmgr.devices[1].releases[1].trust_flags.some
    /\ fwupdmgr.devices[1].releases[2].version = "2.0"
    /\ Len(plan_fwupd.updates) = 1
    /\ plan_fwupd.updates[1].available = "2.0"
    /\ state_fwupd.updates = plan_fwupd.updates

\* The releases the collectors list, in document order.
ListedReleases ==
    SelectSeq(AllReleases(fwupdmgr.devices),
              LAMBDA pair : ~SkipsRelease(pair.dev.installed, pair.rel.version))

\* Checksum, then the entries of Checksums, then the entries of checksums.
ChecksumCandidates(rel) ==
    (IF rel.checksum.some THEN <<rel.checksum.value>> ELSE <<>>)
        \o (IF rel.checksums.some THEN rel.checksums.value ELSE <<>>)
        \o (IF rel.checksums_lower.some THEN rel.checksums_lower.value ELSE <<>>)

\* C20 (as stated): the available_hash of a listed release is the first
\* non-empty value among Checksum, the entries of Checksums and the entries of
\* checksums, trimmed and cut to 16 characters, and it is empty only if none
\* of those fields holds a non-empty value.
C20_FirstNonEmptyChecksum ==
    \A updates \in FirmwareLists :
        \A i \in DOMAIN updates :
            LET first == FindNonEmpty(ChecksumCandidates(ListedReleases[i].rel))
            IN  /\ first.some => updates[i].available_hash = truncate_hash(first.value)
                /\ updates[i].available_hash = <<>> => ~first.some

\* ------------------------------------------------------------ plan collectors
\* The empty version string; vercmp orders it below every version.
EmptyVersion == 0
\* collect_aur_updates: names per AUR request.
CHUNK == 100

\* str::eq_ignore_ascii_case on the source tags that occur.
ToAsciiUpper(tag) ==
    IF tag = "aur" THEN "AUR" ELSE IF tag = "pacman" THEN "PACMAN" ELSE tag

\* matches_source; the absent source is the tag "none".
matches_source(source, target) == source # "none" /\ ToAsciiUpper(source) = target

\* InstalledPkgRecord, with the key it is stored under.
InstalledPkgRecord(name, installed_version, source) ==
    [name |-> name, installed_version |-> installed_version, source |-> source]

\* What a source answers for one package: how the `pacman -Si` query ends
\* (repository packages), the version it advertises (None when the answer
\* carries none), and whether vercmp fails on it.
Advertised(query, available, vercmp_fails) ==
    [query |-> query, available |-> available, vercmp_fails |-> vercmp_fails]

\* An entry of pacman_updates / aur_updates.
PlanUpdate(name, installed, available, source) ==
    [name |-> name, installed |-> installed, available |-> available, source |-> source]

\* Mutant: an equal version is listed as an update too.
IsUpdate_NotGreater(ordering) == ordering \in {"Less", "Equal"}

\* The guard `Ok(ordering) if ordering.is_lt()` of both collectors.
IsUpdate(ordering) == ordering = "Less"

\* The match on compare_versions of both collectors: an update is pushed,
\* or an error, or nothing.
CompareOutcome(pkg, available, vercmp_fails) ==
    LET ordering == compare_versions(pkg.installed_version, available, vercmp_fails)
    IN  IF ordering = "Err" THEN "vercmp failed"
        ELSE IF IsUpdate(ordering) THEN "update"
        ELSE "none"

\* What one iteration of the loop of collect_pacman_updates pushes: "update",
\* the error it reports, or "none".
PacmanOutcome(pkg, answer) ==
    IF ~matches_source(pkg.source, "PACMAN") THEN "none"
    ELSE IF pkg.installed_version = EmptyVersion THEN "none"
    ELSE IF answer.query = "spawn_failed" THEN "failed to spawn"
    ELSE IF answer.query = "exit_failure" THEN "failed to query"
    ELSE IF answer.available = None THEN "missing remote version"
    ELSE CompareOutcome(pkg, answer.available, answer.vercmp_fails)

\* What the loop over a chunk whose request was answered pushes for one
\* name: names missing from the results are passed over.
AurOutcome(pkg, answer) ==
    IF answer.available = None THEN "none"
    ELSE CompareOutcome(pkg, answer.available, answer.vercmp_fails)

\* The loop body of the collector of `source`.
LoopOutcome(source, pkg, answer) ==
    IF source = "pacman" THEN PacmanOutcome(pkg, answer) ELSE AurOutcome(pkg, answer)

\* The updates a loop pushes, in iteration order: one per package whose
\* outcome is "update".
PushedUpdates(pkgs, answers, source) ==
    LET hits == SelectSeq(pkgs, LAMBDA pkg :
                              LoopOutcome(source, pkg, answers[pkg.name]) = "update")
    IN  [i \in DOMAIN hits |->
            PlanUpdate(hits[i].name, hits[i].installed_version,
                       answers[hits[i].name].available, source)]

\* The errors a loop pushes, in iteration order: one per package whose
\* outcome is an error.
PushedErrors(pkgs, answers, source) ==
    LET hits == SelectSeq(pkgs, LAMBDA pkg :
                              LoopOutcome(source, pkg, answers[pkg.name])
                                  \notin {"update", "none"})
    IN  [i \in DOMAIN hits |->
            ErrorEntry(source, LoopOutcome(source, hits[i], answers[hits[i].name]),
                       hits[i].name)]

\* plan::collect_pacman_updates: (updates, errors).
collect_pacman_updates(pkgs, answers) ==
    [updates |-> PushedUpdates(pkgs, answers, "pacman"),
     errors |-> PushedErrors(pkgs, answers, "pacman")]

\* The (name, installed_version) pairs collect_aur_updates starts from.
AurTagged(pkgs) == SelectSeq(pkgs, LAMBDA pkg : matches_source(pkg.source, "AUR"))

\* Mutant: the whole remaining list goes into one request.
ChunkLen_Whole(remaining) == remaining

\* aur_pkgs.len().min(CHUNK)
ChunkLen(remaining) == IF remaining < CHUNK THEN remaining ELSE CHUNK

\* A request as the archive sees it: the names of its arg[] parameters, and
\* whether it was answered with a parseable result list.
AurRequest(chunk, answered) ==
    [names |-> [i \in DOMAIN chunk |-> chunk[i].name], answered |-> answered]

\* An external query as the environment sees it: the command or service
\* asked, and the package it is asked about (the first name of an archive
\* request; 0 for a listing).
Query(source, subject) == [source |-> source, subject |-> subject]

\* The `pacman -Si` commands the repository collector spawns: one for each
\* PACMAN-tagged package with a non-empty installed version.
PacmanQueries(pkgs) ==
    LET asked == SelectSeq(pkgs, LAMBDA pkg : /\ matches_source(pkg.source, "PACMAN")
                                              /\ pkg.installed_version # EmptyVersion)
    IN  [i \in DOMAIN asked |-> Query("pacman", asked[i].name)]

\* Mutant: a failed request leaves two errors behind.
FailedBatchErrors_Twice(failure) ==
    <<ErrorEntry("aur", failure, 0), ErrorEntry("aur", failure, 0)>>

\* What a failed request leaves behind: one error, and `continue`.
FailedBatchErrors(failure) == <<ErrorEntry("aur", failure, 0)>>

\* The ways an AUR request fails: send error, HTTP error status, parse error.
AurFailures == {"request failed", "HTTP error", "parse failed"}

\* ------------------------------------------------- PlanCommand::execute, run_plan
\* What a plan run reads but never writes, and the machines it does not touch.
plan_env_vars == <<cmd, config, manifest, upstream, flatpak, free, fwupdmgr>>
plan_fixed_vars == <<resolve_vars, build_vars, capacity_vars, updates_vars, state_fwupd,
                     plan_env_vars>>

\* Mutant: a collector's errors are put in front of the shared list.
Extend_Prepend(list, more) == more \o list

\* errors.extend(errs)
Extend(list, more) == list \o more

\* execute cannot open or parse the manifest: the error is returned through
\* `?` from execute and from run_plan.
PlanOpenFails ==
    /\ ppc = "open"
    /\ ppc' = "exited"
    /\ exit_code' = "error"
    /\ UNCHANGED <<plan_fixed_vars, sources, pacman_updates, aur_updates, flatpak_updates,
                   aur_pkgs, requests, queried, errors, space_meta, space_blocked,
                   apc, assessed, fpc, plan_fwupd>>

\* execute reads the manifest and runs the repository collector unless --no-repo.
PlanPacman ==
    /\ ppc = "open"
    /\ LET result == collect_pacman_updates(manifest.packages, upstream)
       IN  IF ~cmd.no_repo
           THEN /\ sources' = Append(sources, "pacman")
                /\ pacman_updates' = result.updates
                /\ errors' = Extend(errors, result.errors)
                /\ queried' = queried \o PacmanQueries(manifest.packages)
           ELSE UNCHANGED <<sources, pacman_updates, errors, queried>>
    /\ ppc' = "aur"
    /\ UNCHANGED <<plan_fixed_vars, aur_updates, flatpak_updates, aur_pkgs, requests,
                   space_meta, space_blocked, exit_code, apc, assessed, fpc, plan_fwupd>>

\* The archive collector is entered unless --no-aur or --offline; it returns
\* at once when no package is AUR-tagged.
AurBegin ==
    /\ ppc = "aur"
    /\ IF ~cmd.no_aur /\ ~cmd.offline
       THEN /\ sources' = Append(sources, "aur")
            /\ aur_pkgs' = AurTagged(manifest.packages)
            /\ ppc' = IF AurTagged(manifest.packages) = <<>> THEN "flatpak" ELSE "aur_loop"
       ELSE /\ ppc' = "flatpak"
            /\ UNCHANGED <<sources, aur_pkgs>>
    /\ UNCHANGED <<plan_fixed_vars, pacman_updates, aur_updates, flatpak_updates,
                   requests, queried,
                   errors, space_meta, space_blocked, exit_code, apc, assessed, fpc,
                   plan_fwupd>>

\* One iteration of `while !aur_pkgs.is_empty()` whose request fails: one
\* error, and the loop continues with the next chunk.
AurBatchFails ==
    /\ ppc = "aur_loop"
    /\ aur_pkgs # <<>>
    /\ LET n == ChunkLen(Len(aur_pkgs))
           chunk == SubSeq(aur_pkgs, 1, n)
       IN  /\ requests' = Append(requests, AurRequest(chunk, FALSE))
           /\ queried' = Append(queried, Query("aur", chunk[1].name))
           /\ aur_pkgs' = SubSeq(aur_pkgs, n + 1, Len(aur_pkgs))
    /\ \E failure \in AurFailures : errors' = Extend(errors, FailedBatchErrors(failure))
    /\ UNCHANGED <<plan_fixed_vars, ppc, sources, pacman_updates, aur_updates,
                   flatpak_updates, space_meta, space_blocked, exit_code, apc, assessed,
                   fpc, plan_fwupd>>

\* One iteration whose request is answered: every name of the chunk that the
\* answer lists is compared.
AurBatchOk ==
    /\ ppc = "aur_loop"
    /\ aur_pkgs # <<>>
    /\ LET n == ChunkLen(Len(aur_pkgs))
           chunk == SubSeq(aur_pkgs, 1, n)
       IN  /\ requests' = Append(requests, AurRequest(chunk, TRUE))
           /\ queried' = Append(queried, Query("aur", chunk[1].name))
           /\ aur_pkgs' = SubSeq(aur_pkgs, n + 1, Len(aur_pkgs))
           /\ aur_updates' = aur_updates \o PushedUpdates(chunk, upstream, "aur")
           /\ errors' = Extend(errors, PushedErrors(chunk, upstream, "aur"))
    /\ UNCHANGED <<plan_fixed_vars, ppc, sources, pacman_updates, flatpak_updates,
                   space_meta, space_blocked, exit_code, apc, assessed, fpc, plan_fwupd>>

\* The loop ends: collect_aur_updates returns (updates, errors).
AurReturn ==
    /\ ppc = "aur_loop"
    /\ aur_pkgs = <<>>
    /\ ppc' = "flatpak"
    /\ UNCHANGED <<plan_fixed_vars, sources, pacman_updates, aur_updates, flatpak_updates,
                   aur_pkgs, requests, queried, errors, space_meta, space_blocked, exit_code,
                   apc, assessed, fpc, plan_fwupd>>

\* plan::collect_flatpak_updates: (updates, errors); a successful listing is
\* one line naming one application.
collect_flatpak_updates(output) ==
    IF output = "spawn_failed"
    THEN [updates |-> <<>>, errors |-> <<ErrorEntry("flatpak", "failed to spawn", 0)>>]
    ELSE IF output = "exit_failure"
    THEN [updates |-> <<>>, errors |-> <<ErrorEntry("flatpak", "stderr", 0)>>]
    ELSE [updates |-> <<[name |-> "app", available |-> "1.0", source |-> "flatpak"]>>,
          errors |-> <<>>]

\* The flatpak collector, when --with-flatpak.
PlanFlatpak ==
    /\ ppc = "flatpak"
    /\ IF cmd.with_flatpak
       THEN /\ sources' = Append(sources, "flatpak")
            /\ flatpak_updates' = collect_flatpak_updates(flatpak).updates
            /\ errors' = Extend(errors, collect_flatpak_updates(flatpak).errors)
            /\ queried' = Append(queried, Query("flatpak", 0))
       ELSE UNCHANGED <<sources, flatpak_updates, errors, queried>>
    /\ ppc' = "fwupd"
    /\ UNCHANGED <<plan_fixed_vars, pacman_updates, aur_updates, aur_pkgs, requests,
                   space_meta, space_blocked, exit_code, apc, assessed, fpc, plan_fwupd>>

\* The firmware collector, when --with-fwupd.
PlanFwupd ==
    /\ ppc = "fwupd"
    /\ IF cmd.with_fwupd
       THEN /\ sources' = Append(sources, "fwupd")
            /\ plan_fwupd' = collect_fwupd_updates(fwupdmgr)
            /\ fpc' = fpc \cup {"plan"}
            /\ errors' = Extend(errors, collect_fwupd_updates(fwupdmgr).errors)
            /\ queried' = Append(queried, Query("fwupdmgr", 0))
       ELSE UNCHANGED <<sources, plan_fwupd, fpc, errors, queried>>
    /\ ppc' = "disk"
    /\ UNCHANGED <<plan_fixed_vars, pacman_updates, aur_updates, flatpak_updates, aur_pkgs,
                   requests, space_meta, space_blocked, exit_code, apc, assessed>>

\* The shortfall message of the disk buffer check ("disk: available .. below
\* configured buffer .. on ..").
BelowBufferMessage == ErrorEntry("disk", "available below configured buffer", 0)
NoWarning == ErrorEntry("none", "", 0)

\* `min_free > 0 && report.available_bytes < min_free`
BelowBuffer(min_free, available) == min_free > 0 /\ available < min_free

\* Mutant: a low disk blocks the plan under either policy.
Blocks_AnyPolicy(policy) == TRUE

\* The arm SpacePolicy::Enforce of the match on the policy.
Blocks(policy) == policy = "enforce"

\* metadata.space as the disk buffer check fills it in.
SpaceMeta(report, status, warning) ==
    [policy |-> config.policy,
     min_free_bytes |-> config.min_free_bytes,
     available_bytes |-> IF report.ok THEN report.available_bytes ELSE None,
     checked_path |-> report.checked_path,
     status |-> status,
     warning |-> warning]

\* The disk buffer check of execute.
PlanDisk ==
    /\ ppc = "disk"
    /\ LET report == assess_default_paths(free)
           low == report.ok /\ BelowBuffer(config.min_free_bytes, report.available_bytes)
       IN  /\ assessed' = report
           /\ apc' = "return"
           /\ IF ~report.ok
              THEN /\ space_meta' = SpaceMeta(report, "unknown", NoWarning)
                   /\ errors' = Append(errors,
                                       ErrorEntry("disk", "unable to assess free space", 0))
                   /\ UNCHANGED space_blocked
              ELSE IF low /\ Blocks(config.policy)
              THEN /\ space_meta' = SpaceMeta(report, "low", NoWarning)
                   /\ errors' = Append(errors, BelowBufferMessage)
                   /\ space_blocked' = TRUE
              ELSE IF low
              THEN /\ space_meta' = SpaceMeta(report, "low", BelowBufferMessage)
                   /\ UNCHANGED <<errors, space_blocked>>
              ELSE /\ space_meta' = SpaceMeta(report, "ok", NoWarning)
                   /\ UNCHANGED <<errors, space_blocked>>
    /\ ppc' = "write"
    /\ UNCHANGED <<plan_fixed_vars, sources, pacman_updates, aur_updates, flatpak_updates,
                   aur_pkgs, requests, queried, exit_code, fpc, plan_fwupd>>

\* The plan file is written and execute returns Ok(PlanOutput).
PlanWrite ==
    /\ ppc = "write"
    /\ ppc' = "returned"
    /\ UNCHANGED <<plan_fixed_vars, sources, pacman_updates, aur_updates, flatpak_updates,
                   aur_pkgs, requests, queried, errors, space_meta, space_blocked, exit_code,
                   apc, assessed, fpc, plan_fwupd>>

\* The plan directory or file cannot be written: execute returns the error.
PlanWriteFails ==
    /\ ppc = "write"
    /\ ppc' = "exited"
    /\ exit_code' = "error"
    /\ UNCHANGED <<plan_fixed_vars, sources, pacman_updates, aur_updates, flatpak_updates,
                   aur_pkgs, requests, queried, errors, space_meta, space_blocked,
                   apc, assessed, fpc, plan_fwupd>>

\* The exit code run_plan returns for an Ok(PlanOutput).
run_plan_exit(command, error_count, blocked) ==
    IF command.json THEN "SUCCESS"
    ELSE IF command.strict /\ error_count > 0 THEN "FAILURE"
    ELSE IF blocked THEN "FAILURE"
    ELSE "SUCCESS"

\* run_plan after execute has returned.
RunPlan ==
    /\ ppc = "returned"
    /\ exit_code' = run_plan_exit(cmd, Len(errors), space_blocked)
    /\ ppc' = "exited"
    /\ UNCHANGED <<plan_fixed_vars, sources, pacman_updates, aur_updates, flatpak_updates,
                   aur_pkgs, requests, queried, errors, space_meta, space_blocked,
                   apc, assessed, fpc, plan_fwupd>>

NextPlan ==
    \/ PlanOpenFails
    \/ PlanPacman
    \/ AurBegin
    \/ AurBatchFails
    \/ AurBatchOk
    \/ AurReturn
    \/ PlanFlatpak
    \/ PlanFwupd
    \/ PlanDisk
    \/ PlanWrite
    \/ PlanWriteFails
    \/ RunPlan

\* ------------------------------------------------------ inputs of a plan run
\* A manifest package together with what its source answers for it.
PackageKind(source, installed, query, available, vercmp_fails) ==
    [source |-> source, installed_version |-> installed,
     answer |-> Advertised(query, available, vercmp_fails)]

\* The package situations the collectors distinguish; the installed version
\* is 2 unless it is empty.
PackageKinds ==
    {PackageKind("PACMAN", 2, "ok", 3, FALSE),
     PackageKind("PACMAN", 2, "ok", 2, FALSE),
     PackageKind("PACMAN", 2, "ok", 1, FALSE),
     PackageKind("PACMAN", 2, "ok", 3, TRUE),
     PackageKind("PACMAN", 2, "spawn_failed", None, FALSE),
     PackageKind("PACMAN", 2, "exit_failure", None, FALSE),
     PackageKind("PACMAN", 2, "ok", None, FALSE),
     PackageKind("PACMAN", EmptyVersion, "ok", 3, FALSE),
     PackageKind("AUR", 2, "ok", 3, FALSE),
     PackageKind("AUR", 2, "ok", 2, FALSE),
     PackageKind("AUR", 2, "ok", 1, FALSE),
     PackageKind("AUR", 2, "ok", 3, TRUE),
     PackageKind("AUR", 2, "ok", None, FALSE),
     PackageKind("aur", EmptyVersion, "ok", 3, FALSE),
     PackageKind("LOCAL", 2, "ok", 3, FALSE),
     PackageKind("none", 2, "ok", 3, FALSE)}

\* The few situations kept when the disk check and the exit code are varied.
FewPackageKinds ==
    {PackageKind("PACMAN", 2, "ok", 3, FALSE),
     PackageKind("PACMAN", 2, "exit_failure", None, FALSE),
     PackageKind("AUR", 2, "ok", 3, FALSE)}

\* The manifest and the upstream answers for packages 1..n of the given kinds.
ManifestOf(kinds, transient) ==
    [packages |-> [i \in DOMAIN kinds |->
                     InstalledPkgRecord(i, kinds[i].installed_version, kinds[i].source)],
     transient_size_total |-> transient]
UpstreamOf(kinds) == [i \in DOMAIN kinds |-> kinds[i].answer]

\* The source switches of the command.
SourceSwitches ==
    {[DefaultCommand EXCEPT !.no_repo = r, !.no_aur = a, !.offline = o] :
        r \in BOOLEAN, a \in BOOLEAN, o \in BOOLEAN}

\* The free_bytes results of the four candidates in a plan run: no candidate
\* can be queried, or the most constrained one has 900, 1500 or 3000 bytes.
PlanFree ==
    {[i \in DOMAIN candidates |-> FreeErr],
     <<FreeOk(3000), FreeOk(900), FreeErr, FreeOk(900)>>,
     <<FreeOk(1500), FreeOk(3000), FreeOk(3000), FreeOk(1500)>>,
     [i \in DOMAIN candidates |-> FreeOk(3000)]}

PlanConfigs ==
    {[min_free_bytes |-> 1000, policy |-> "warn"],
     [min_free_bytes |-> 1000, policy |-> "enforce"],
     [min_free_bytes |-> 0, policy |-> "enforce"]}

\* fwupdmgr reporting one device on 1.0 with a 2.0 release.
OneFirmwareUpdate ==
    [status |-> "ok",
     devices |-> <<Device("dev0", "1.0",
                          <<Release("2.0", "fix",
                                    CHOOSE c \in FewChecksumFields :
                                        c.checksum.some /\ c.checksum.value # <<>>,
                                    CHOOSE t \in TrustFields :
                                        ~t.trust_flags.some /\ ~t.signed.some)>>)>>]

\* The variables a plan run starts from, whatever its inputs.
PlanStart ==
    /\ ppc = "open"
    /\ sources = <<>>
    /\ pacman_updates = <<>>
    /\ aur_updates = <<>>
    /\ flatpak_updates = <<>>
    /\ aur_pkgs = <<>>
    /\ requests = <<>>
    /\ queried = <<>>
    /\ errors = <<>>
    /\ space_meta = NoSpaceMeta
    /\ space_blocked = FALSE
    /\ exit_code = "none"
    /\ apc = "call"
    /\ assessed = SpaceFailure
    /\ fpc = {}
    /\ plan_fwupd = [updates |-> <<>>, errors |-> <<>>]
    /\ state_fwupd = [ok |-> TRUE, updates |-> <<>>, error |-> ""]
    /\ rpc = "call"
    /\ rin = [package |-> InstalledPackage(1, 1, NoRepository), repo_info |-> NoInfo,
              aur_info |-> NoInfo, fail |-> {}]
    /\ rout = ResolveErr
    /\ BuildIdle
    /\ CapacityIdle
    /\ UpdatesIdle

\* Every package situation, with a roomy disk and the default flags.
InitCollect ==
    /\ \E kinds \in UNION {[1..n -> PackageKinds] : n \in 0..MaxPkgs} :
         /\ manifest = ManifestOf(kinds, 1000)
         /\ upstream = UpstreamOf(kinds)
    /\ cmd \in SourceSwitches
    /\ config = [min_free_bytes |-> 1000, policy |-> "warn"]
    /\ free = [i \in DOMAIN candidates |-> FreeOk(3000)]
    /\ flatpak = "ok"
    /\ fwupdmgr = NoFwupdmgr

\* Every disk situation, policy and flag, with few package situations.
InitGate ==
    /\ \E kinds \in UNION {[1..n -> FewPackageKinds] : n \in 0..MaxPkgs} :
         /\ manifest = ManifestOf(kinds, 1000)
         /\ upstream = UpstreamOf(kinds)
    /\ \E switches \in {c \in SourceSwitches : ~c.offline},
          fp \in BOOLEAN, fw \in BOOLEAN, js \in BOOLEAN, st \in BOOLEAN :
         cmd = [switches EXCEPT !.with_flatpak = fp, !.with_fwupd = fw,
                                !.json = js, !.strict = st]
    /\ config \in PlanConfigs
    /\ free \in PlanFree
    /\ flatpak = "exit_failure"
    /\ fwupdmgr = OneFirmwareUpdate

\* Many AUR-tagged packages, preceded by a repository package and followed
\* by an untagged one.
InitBatches ==
    /\ \E n \in 0..MaxAurNames :
         LET kinds == [i \in 1..(n + 2) |->
                          IF i = 1 THEN PackageKind("PACMAN", 2, "ok", 3, FALSE)
                          ELSE IF i = n + 2 THEN PackageKind("LOCAL", 2, "ok", 3, FALSE)
                          ELSE PackageKind("AUR", 2, "ok", 3, FALSE)]
         IN  /\ manifest = ManifestOf(kinds, 1000)
             /\ upstream = UpstreamOf(kinds)
    /\ cmd = DefaultCommand
    /\ config = [min_free_bytes |-> 1000, policy |-> "warn"]
    /\ free = [i \in DOMAIN candidates |-> FreeOk(3000)]
    /\ flatpak = "ok"
    /\ fwupdmgr = NoFwupdmgr

\* The package situations in which a collector reports an error, beside one
\* that yields an update.
FailingPackageKinds ==
    {PackageKind("PACMAN", 2, "spawn_failed", None, FALSE),
     PackageKind("PACMAN", 2, "ok", 3, TRUE),
     PackageKind("AUR", 2, "ok", 3, TRUE),
     PackageKind("AUR", 2, "ok", 3, FALSE)}

\* Every source failing: flatpak cannot be spawned, fwupdmgr fails in each of
\* its three ways, and the disk is unassessable or below an enforced buffer.
InitFailures ==
    /\ \E kinds \in UNION {[1..n -> FailingPackageKinds] : n \in 0..MaxPkgs} :
         /\ manifest = ManifestOf(kinds, 1000)
         /\ upstream = UpstreamOf(kinds)
    /\ \E fp \in BOOLEAN, fw \in BOOLEAN :
         cmd = [DefaultCommand EXCEPT !.with_flatpak = fp, !.with_fwupd = fw]
    /\ config = [min_free_bytes |-> 1000, policy |-> "enforce"]
    /\ free \in {[i \in DOMAIN candidates |-> FreeErr],
                 <<FreeOk(3000), FreeOk(900), FreeErr, FreeOk(900)>>}
    /\ flatpak = "spawn_failed"
    /\ fwupdmgr \in {o \in FwupdmgrOutputs : o.status # "ok"}

InitPlan == PlanStart /\ (InitCollect \/ InitGate \/ InitBatches \/ InitFailures)

SpecPlan == InitPlan /\ [][NextPlan]_vars

\* ------------------------------------------------ claims on the plan collectors
\* The collectors have returned.
RepoCollected == \E i \in DOMAIN sources : sources[i] = "pacman"
AurCollected == ppc # "aur_loop" /\ \E i \in DOMAIN sources : sources[i] = "aur"

Listed(updates, name) == \E i \in DOMAIN updates : updates[i].name = name
Reported(name) == \E i \in DOMAIN errors : errors[i].subject = name

\* The package reaches the compare_versions call of the repository collector.
RepoCompared(pkg) ==
    /\ RepoCollected
    /\ matches_source(pkg.source, "PACMAN")
    /\ pkg.installed_version # EmptyVersion
    /\ upstream[pkg.name].query = "ok"
    /\ upstream[pkg.name].available # None

\* The package reaches the compare_versions call of the archive collector:
\* its request was answered and the answer lists it.
AurCompared(pkg) ==
    /\ AurCollected
    /\ matches_source(pkg.source, "AUR")
    /\ upstream[pkg.name].available # None
    /\ \E r \in DOMAIN requests :
          requests[r].answered /\ \E i \in DOMAIN requests[r].names :
                                      requests[r].names[i] = pkg.name

\* What the Oracle says about the package's installed and advertised versions.
OracleOrdering(pkg) ==
    compare_versions(pkg.installed_version, upstream[pkg.name].available,
                     upstream[pkg.name].vercmp_fails)

\* C17: a package is in pacman_updates / aur_updates only when the Oracle
\* orders its installed version strictly below the advertised one (and a
\* compared package so ordered is listed); an equal or greater result adds
\* neither an update nor an error; an Oracle failure adds an error entry for
\* the package and no update.
C17_UpdateOnlyWhenLess ==
    \A k \in DOMAIN manifest.packages :
        LET pkg == manifest.packages[k]
            listed == Listed(pacman_updates, pkg.name) \/ Listed(aur_updates, pkg.name)
        IN  /\ listed => /\ upstream[pkg.name].available # None
                         /\ OracleOrdering(pkg) = "Less"
            /\ (RepoCompared(pkg) \/ AurCompared(pkg)) =>
                  /\ OracleOrdering(pkg) = "Less" => listed /\ ~Reported(pkg.name)
                  /\ OracleOrdering(pkg) \in {"Equal", "Greater"} =>
                        ~listed /\ ~Reported(pkg.name)
                  /\ OracleOrdering(pkg) = "Err" => ~listed /\ Reported(pkg.name)

\* A repository package with a newer version and an archive package whose
\* advertised version equals the installed one: only the first is listed,
\* and nothing is reported.
C17_Witness ==
    /\ ppc = "exited"
    /\ Len(manifest.packages) = 2
    /\ RepoCompared(manifest.packages[1])
    /\ OracleOrdering(manifest.packages[1]) = "Less"
    /\ AurCompared(manifest.packages[2])
    /\ OracleOrdering(manifest.packages[2]) = "Equal"
    /\ Len(pacman_updates) = 1
    /\ aur_updates = <<>>
    /\ errors = <<>>

RECURSIVE RequestedNames(_)
\* The names of the requests sent so far, in order.
RequestedNames(reqs) ==
    IF reqs = <<>> THEN <<>> ELSE Head(reqs).names \o RequestedNames(Tail(reqs))

\* The names of the AUR-tagged packages of the manifest.
AurTaggedNames ==
    [i \in DOMAIN AurTagged(manifest.packages) |-> AurTagged(manifest.packages)[i].name]

\* C18: every AUR request carries between 1 and 100 names, and the requests
\* partition the AUR-tagged packages of the manifest: while the loop runs the
\* names sent and the names still to send make up the tagged names, each
\* once, and when collect_aur_updates has returned every tagged name has been
\* sent in exactly one request.
C18_BatchesPartition ==
    LET tagged == AurTaggedNames
        sent == RequestedNames(requests)
    IN  /\ \A r \in DOMAIN requests :
              Len(requests[r].names) >= 1 /\ Len(requests[r].names) <= CHUNK
        /\ ppc = "aur_loop" =>
              sent \o [i \in DOMAIN aur_pkgs |-> aur_pkgs[i].name] = tagged
        /\ AurCollected => sent = tagged
        /\ \A i \in 1..(Len(tagged) - 1) : tagged[i] < tagged[i + 1]

\* 201 tagged packages: requests of 100, 100 and 1 names, the second unanswered.
C18_Witness ==
    /\ AurCollected
    /\ Len(AurTaggedNames) = 2 * CHUNK + 1
    /\ Len(requests) = 3
    /\ Len(requests[1].names) = CHUNK
    /\ Len(requests[2].names) = CHUNK
    /\ Len(requests[3].names) = 1
    /\ ~requests[2].answered
    /\ requests[3].answered

\* ---------------------------------------------- claims on the disk buffer check
\* The disk buffer check has run and free space could be assessed.
DiskAssessed == space_meta.status \in {"ok", "low"}
DiskEntry(entry) == entry.origin = "disk"
HasDiskEntry == \E i \in DOMAIN errors : DiskEntry(errors[i])

\* C14: in execute, when the available bytes are below the required amount
\* (the configured buffer), the enforce policy yields blocked = true and a
\* shortfall entry in metadata.errors, and the warn policy yields
\* blocked = false, the shortfall as space.warning, and no shortfall entry in
\* metadata.errors.
C14_EnforceBlocksWarnWarns ==
    (DiskAssessed /\ config.min_free_bytes > 0
        /\ space_meta.available_bytes < config.min_free_bytes) =>
        /\ config.policy = "enforce" =>
              /\ space_blocked
              /\ errors # <<>> /\ errors[Len(errors)] = BelowBufferMessage
              /\ space_meta.warning = NoWarning
        /\ config.policy = "warn" =>
              /\ ~space_blocked
              /\ space_meta.warning = BelowBufferMessage
              /\ ~HasDiskEntry

\* required = 1000, available = 900 under enforce: blocked, with the entry.
C14_Witness ==
    /\ ppc = "returned"
    /\ config = [min_free_bytes |-> 1000, policy |-> "enforce"]
    /\ space_meta.available_bytes = 900
    /\ space_meta.checked_path = 2
    /\ space_blocked
    /\ errors[Len(errors)] = BelowBufferMessage

\* The same inputs under warn: not blocked, a warning, no entry.
C14_WitnessWarn ==
    /\ ppc = "returned"
    /\ config = [min_free_bytes |-> 1000, policy |-> "warn"]
    /\ space_meta.available_bytes = 900
    /\ ~space_blocked
    /\ space_meta.warning = BelowBufferMessage
    /\ errors = <<>>

\* C15 (as stated): the threshold of the plan's disk check is
\* required_total = transient_size_total + minimum-free buffer, so a host
\* whose available bytes are below that sum is reported as a shortfall, also
\* when they are at least the buffer.
C15_ThresholdIncludesTransient ==
    (DiskAssessed
        /\ space_meta.available_bytes
              < saturating_add(manifest.transient_size_total, config.min_free_bytes)) =>
        space_meta.status = "low"

\* run_plan has returned an exit code for an Ok(PlanOutput).
PlanExited == ppc = "exited" /\ exit_code \in {"SUCCESS", "FAILURE"}

\* C16 (as stated): under the enforce policy with insufficient capacity the
\* run is blocked, i.e. ends with a non-zero outcome, in every mode the plan
\* command has (it has no dry-run mode that would exempt a run).
C16_EnforceShortfallIsNonZero ==
    (PlanExited /\ config.policy = "enforce" /\ space_meta.status = "low") =>
        exit_code = "FAILURE"

\* ------------------------------------------------ claims on the error list
\* The sources execute processes for a command, in processing order.
EnabledSources(command) ==
    (IF ~command.no_repo THEN <<"pacman">> ELSE <<>>)
    \o (IF ~command.no_aur /\ ~command.offline THEN <<"aur">> ELSE <<>>)
    \o (IF command.with_flatpak THEN <<"flatpak">> ELSE <<>>)
    \o (IF command.with_fwupd THEN <<"fwupd">> ELSE <<>>)

Enabled(source) == \E i \in DOMAIN EnabledSources(cmd) : EnabledSources(cmd)[i] = source

\* plan_json has been assembled: the disk check is behind.
DocumentBuilt == ppc \in {"write", "returned"} \/ (ppc = "exited" /\ space_meta # NoSpaceMeta)

\* The error list each collector returns in this run; the archive's list is
\* read off the requests that were sent, with the way a request failed erased.
BatchFailed == ErrorEntry("aur", "batch failed", 0)
EraseFailure(entry) ==
    IF entry.origin = "aur" /\ entry.kind \in AurFailures THEN BatchFailed ELSE entry
RECURSIVE AurErrorsOf(_)
AurErrorsOf(reqs) ==
    IF reqs = <<>> THEN <<>>
    ELSE LET r == Head(reqs)
             chunk == [i \in DOMAIN r.names |-> manifest.packages[r.names[i]]]
         IN  (IF r.answered THEN PushedErrors(chunk, upstream, "aur") ELSE <<BatchFailed>>)
             \o AurErrorsOf(Tail(reqs))
PacmanErrors ==
    IF Enabled("pacman") THEN collect_pacman_updates(manifest.packages, upstream).errors
    ELSE <<>>
FlatpakErrors == IF Enabled("flatpak") THEN collect_flatpak_updates(flatpak).errors ELSE <<>>
FwupdErrors == IF Enabled("fwupd") THEN collect_fwupd_updates(fwupdmgr).errors ELSE <<>>
DiskEntries == SelectSeq(errors, DiskEntry)

\* C21: a failing source only appends to metadata.errors. Once the document
\* is assembled every enabled source has been processed, in the order pacman,
\* aur, flatpak, fwupd, each with the updates its collector returns, and
\* metadata.errors is the concatenation of the collectors' error lists in
\* that order followed by the disk entry, if any; a run aborts only before
\* the first source is queried or after the document is assembled.
C21_ErrorsInSourceOrder ==
    /\ DocumentBuilt =>
         /\ sources = EnabledSources(cmd)
         /\ Enabled("pacman") =>
              pacman_updates = collect_pacman_updates(manifest.packages, upstream).updates
         /\ Enabled("flatpak") => flatpak_updates = collect_flatpak_updates(flatpak).updates
         /\ Enabled("fwupd") => plan_fwupd = collect_fwupd_updates(fwupdmgr)
         /\ Len(DiskEntries) <= 1
         /\ [i \in DOMAIN errors |-> EraseFailure(errors[i])]
              = PacmanErrors \o AurErrorsOf(requests) \o FlatpakErrors \o FwupdErrors
                \o DiskEntries
    /\ (ppc = "exited" /\ exit_code = "error" /\ ~DocumentBuilt) =>
         sources = <<>> /\ errors = <<>>

\* Every source enabled and failing, the disk entry last, and the plan written.
C21_Witness ==
    /\ ppc = "returned"
    /\ sources = <<"pacman", "aur", "flatpak", "fwupd">>
    /\ PacmanErrors # <<>>
    /\ \E i \in DOMAIN requests : ~requests[i].answered
    /\ FlatpakErrors # <<>>
    /\ FwupdErrors # <<>>
    /\ Len(errors) = 5
    /\ errors[5].origin = "disk"
    /\ pacman_updates = <<>>

\* ------------------------------------------------- claims on the single pass
\* ceil(n / CHUNK)
CeilChunks(n) == (n + CHUNK - 1) \div CHUNK

\* The requests that were not answered, and the errors they left behind.
FailedRequests == {r \in DOMAIN requests : ~requests[r].answered}
BatchFailureEntries ==
    {i \in DOMAIN errors : errors[i].origin = "aur" /\ errors[i].kind \in AurFailures}
NamesOf(request) == {request.names[i] : i \in DOMAIN request.names}

\* C25: no external query is issued twice in a run: one `pacman -Si` per
\* queried package, one request per archive batch, one flatpak listing, one
\* firmware listing. A failed batch leaves one error and neither an update
\* nor a further error for its names; the names left after k requests are
\* the tagged names beyond the first k * 100, so the loop goes on after a
\* failure and ends after ceil(n / 100) requests.
C25_SinglePassNoRetry ==
    LET n == Len(AurTagged(manifest.packages))
    IN  /\ \A i, j \in DOMAIN queried : queried[i] = queried[j] => i = j
        /\ Cardinality({i \in DOMAIN queried : queried[i].source = "flatpak"}) <= 1
        /\ Cardinality({i \in DOMAIN queried : queried[i].source = "fwupdmgr"}) <= 1
        /\ Cardinality({i \in DOMAIN queried : queried[i].source = "aur"}) = Len(requests)
        /\ Cardinality(BatchFailureEntries) = Cardinality(FailedRequests)
        /\ \A r \in FailedRequests : \A name \in NamesOf(requests[r]) :
              ~Listed(aur_updates, name) /\ ~Reported(name)
        /\ ppc = "aur_loop" =>
              Len(aur_pkgs) = IF n > CHUNK * Len(requests)
                              THEN n - CHUNK * Len(requests) ELSE 0
        /\ AurCollected => Len(requests) = CeilChunks(n)

\* 201 tagged packages, the first request failed: the second and the third
\* were still sent, and the run went on to the flatpak and firmware listings.
C25_Witness ==
    /\ ppc = "returned"
    /\ Len(AurTagged(manifest.packages)) = 2 * CHUNK + 1
    /\ Len(requests) = 3
    /\ FailedRequests = {1}
    /\ Cardinality(BatchFailureEntries) = 1
    /\ Len(aur_updates) = CHUNK + 1
    /\ \E i \in DOMAIN queried : queried[i].source = "pacman"

\* --------------------------------------- claims on the disk entry and strict
\* C22: once the capacity step is behind, metadata.errors holds a disk entry
\* exactly when the policy is enforce and the free space was found below the
\* threshold.
C22_DiskEntryIffEnforcedShortfall ==
    DocumentBuilt =>
        (HasDiskEntry <=> (config.policy = "enforce" /\ space_meta.status = "low"))

\* C23: a strict run that ends with a non-empty error list ends with a
\* non-zero exit code, whatever its other flags.
C23_StrictErrorsAreNonZero ==
    (PlanExited /\ cmd.strict /\ errors # <<>>) => exit_code = "FAILURE"

\* C24: a plan run in which no candidate's free space can be determined ends
\* at the capacity step with an error returned to the caller, and records no
\* disk entry in the document's error list.
C24_AssessFailureIsFatal ==
    (ppc # "idle" /\ apc = "return" /\ ~assessed.ok) =>
        (ppc = "exited" /\ exit_code = "error" /\ ~HasDiskEntry)

\* ------------------------------------------------------ space::ensure_capacity
UNITS == <<"B", "KiB", "MiB", "GiB", "TiB", "PiB">>
KIB == 1024

\* n / d rounded to the nearest integer, ties to even, as `{:.0}` and `{:.1}`
\* round.
RoundHalfEven(n, d) ==
    LET q == n \div d
        r == n % d
    IN  IF 2 * r > d \/ (2 * r = d /\ q % 2 = 1) THEN q + 1 ELSE q

\* The loop of format_bytes: how often the value is divided by 1024.
RECURSIVE UnitSteps(_, _)
UnitSteps(bytes, k) ==
    IF k = Len(UNITS) - 1 \/ bytes < KIB^(k + 1) THEN k ELSE UnitSteps(bytes, k + 1)

\* space::format_bytes: the number printed, in tenths when one decimal is
\* printed (tenths # None), and the unit.
format_bytes(bytes) ==
    LET k == UnitSteps(bytes, 0)
        scale == KIB^k
    IN  IF bytes = 0 THEN [whole |-> 0, tenths |-> None, unit |-> "B"]
        ELSE IF bytes >= 10 * scale \/ bytes % scale = 0
        THEN [whole |-> RoundHalfEven(bytes, scale), tenths |-> None, unit |-> UNITS[k + 1]]
        ELSE [whole |-> RoundHalfEven(10 * bytes, scale) \div 10,
              tenths |-> RoundHalfEven(10 * bytes, scale) % 10,
              unit |-> UNITS[k + 1]]

\* The message of a failed capacity check: its headline and its components.
InsufficientSpace(report, required, download, build, install, margin) ==
    [headline |-> "Insufficient space",
     need |-> format_bytes(required),
     download |-> format_bytes(download),
     build |-> format_bytes(build),
     install |-> format_bytes(install),
     buffer |-> format_bytes(margin),
     on |-> report.checked_path,
     available |-> format_bytes(report.available_bytes)]

\* Mutant: a report that exactly meets the requirement is refused.
Short_OrEqual(available, required) == available <= required

\* `report.available_bytes < required_bytes`
Short(available, required) == available < required

\* space::ensure_capacity: Ok(()) or Err(message).
ensure_capacity(report, required, download, build, install, margin) ==
    IF Short(report.available_bytes, required)
    THEN [ok |-> FALSE,
          message |-> InsufficientSpace(report, required, download, build, install, margin)]
    ELSE [ok |-> TRUE]

\* Byte counts on both sides of the unit and rounding boundaries.
CapacityBytes == {0, 1, 512, 1023, 1024, 1280, 1536, 10239, 10240, U64_MAX}

CapacityInputs ==
    [report : {[checked_path |-> p, available_bytes |-> b] :
                  p \in DOMAIN candidates, b \in CapacityBytes},
     required_bytes : CapacityBytes,
     download_bytes : {0, 1536},
     build_bytes : {0, 1280},
     install_bytes : {512},
     margin_bytes : {0, 1024}]

InitCapacity ==
    /\ cpc = "call"
    /\ cin \in CapacityInputs
    /\ cout = [ok |-> TRUE]
    /\ rpc = "call"
    /\ rin = [package |-> InstalledPackage(1, 1, NoRepository), repo_info |-> NoInfo,
              aur_info |-> NoInfo, fail |-> {}]
    /\ rout = ResolveErr
    /\ BuildIdle
    /\ SpaceIdle
    /\ FirmwareIdle
    /\ PlanIdle
    /\ UpdatesIdle

\* One call of ensure_capacity; the report is borrowed immutably.
EnsureCapacity ==
    /\ cpc = "call"
    /\ cout' = ensure_capacity(cin.report, cin.required_bytes, cin.download_bytes,
                               cin.build_bytes, cin.install_bytes, cin.margin_bytes)
    /\ cpc' = "return"
    /\ UNCHANGED <<cin, resolve_vars, build_vars, space_vars, firmware_vars, plan_vars,
                   updates_vars>>

NextCapacity == EnsureCapacity

SpecCapacity == InitCapacity /\ [][NextCapacity]_vars

\* ----------------------------------------------- claims on ensure_capacity
\* C26: a call of ensure_capacity returns Ok exactly when the report's
\* available bytes are at least the required bytes; otherwise the message
\* is headed "Insufficient space" and lists the download, build, install and
\* buffer components as format_bytes prints them; the report is the same
\* after the call as before.
C26_OkIffEnoughAvailable ==
    [][cpc' = "return" =>
         /\ cout'.ok <=> cin.report.available_bytes >= cin.required_bytes
         /\ ~cout'.ok =>
              /\ cout'.message.headline = "Insufficient space"
              /\ cout'.message.download = format_bytes(cin.download_bytes)
              /\ cout'.message.build = format_bytes(cin.build_bytes)
              /\ cout'.message.install = format_bytes(cin.install_bytes)
              /\ cout'.message.buffer = format_bytes(cin.margin_bytes)
         /\ cin'.report = cin.report]_vars

\* 1023 bytes available against 1 KiB required: refused, with the download
\* printed as 1.5 KiB.
C26_Witness ==
    /\ cpc = "return"
    /\ cin.report.available_bytes = 1023
    /\ cin.required_bytes = 1024
    /\ ~cout.ok
    /\ cout.message.need = [whole |-> 1, tenths |-> None, unit |-> "KiB"]
    /\ cout.message.download = [whole |-> 1, tenths |-> 5, unit |-> "KiB"]
    /\ cout.message.available = [whole |-> 1023, tenths |-> None, unit |-> "B"]

\* Exactly the required bytes available: accepted.
C26_WitnessEqual ==
    /\ cpc = "return"
    /\ cin.report.available_bytes = cin.required_bytes
    /\ cin.required_bytes = 1024
    /\ cout.ok

\* ------------------------------------- claims on failing candidate queries
\* C27: when the query succeeds for at least one candidate, wherever the
\* failing candidates stand in the examination order, assess_default_paths
\* returns a report, and its available bytes are the minimum over the
\* candidates whose query succeeded.
C27_FailuresAreSkipped ==
    (Assessed /\ ~AllQueriesFail) =>
        /\ assessed.ok
        /\ assessed.available_bytes = MinFreeOf({i \in DOMAIN free : free[i].ok})

\* ---------------------------------------------------- updates::collect_updates
\* A --include / --exclude argument: whether Regex::new accepts it, and the
\* package names re.is_match accepts (none when it does not compile).
Pattern(valid, matched) == [valid |-> valid, matched |-> IF valid THEN matched ELSE {}]

\* include_res / exclude_res: the patterns that compile, in order.
Compiled(patterns) == SelectSeq(patterns, LAMBDA pat : pat.valid)

is_match(re, name) == name \in re.matched

\* An entry of the manifest's "packages" object as collect_updates reads it;
\* source "none" is an entry without a "source" string.
ManifestPackage(name, update_available, source) ==
    [name |-> name, update_available |-> update_available, source |-> source,
     installed_version |-> name, newer_version |-> name + 1]

UpdateEntry(name, source, installed, available) ==
    [name |-> name, source |-> source, installed |-> installed, available |-> available]

\* The include test of the loop: applied only when include_res is not empty.
IncludeAccepts(include_res, name) ==
    include_res = <<>> \/ \E i \in DOMAIN include_res : is_match(include_res[i], name)

\* The loop body of collect_updates: TRUE when the entry is pushed.
Pushes(filter, entry) ==
    /\ filter.packages # <<>> =>
          \E i \in DOMAIN filter.packages : filter.packages[i] = entry.name
    /\ entry.update_available
    /\ ~(matches_source(entry.source, "PACMAN") /\ ~filter.allow_repo)
    /\ ~(matches_source(entry.source, "AUR") /\ ~filter.allow_aur)
    /\ IncludeAccepts(Compiled(filter.include), entry.name)
    /\ \A i \in DOMAIN Compiled(filter.exclude) :
          ~is_match(Compiled(filter.exclude)[i], entry.name)

\* updates::collect_updates: Err when the manifest cannot be opened or
\* parsed, else Ok(updates) in the order of the manifest's keys.
collect_updates(file, filter) ==
    IF file.status # "ok" THEN [ok |-> FALSE]
    ELSE LET pushed == SelectSeq(file.packages, LAMBDA entry : Pushes(filter, entry))
         IN  [ok |-> TRUE,
              updates |-> [i \in DOMAIN pushed |->
                              UpdateEntry(pushed[i].name,
                                          IF pushed[i].source = "none" THEN "unknown"
                                          ELSE pushed[i].source,
                                          pushed[i].installed_version,
                                          pushed[i].newer_version)]]

\* The manifests read: up to MaxPkgs packages, each with or without an
\* update, from the repository, the archive, neither, or without a source.
UpdatesManifests ==
    {[status |-> st, packages |-> <<>>] : st \in {"missing", "malformed"}}
    \cup UNION {{[status |-> "ok",
                  packages |-> [i \in 1..n |-> ManifestPackage(i, upd[i], src[i])]] :
                    upd \in [1..n -> BOOLEAN],
                    src \in [1..n -> {"PACMAN", "AUR", "LOCAL", "none"}]} :
                n \in 0..MaxPkgs}

\* Pattern lists: none, one that does not compile, ones matching the first
\* name or every name, and a mix.
PatternLists ==
    {<<>>,
     <<Pattern(FALSE, {})>>,
     <<Pattern(TRUE, {1})>>,
     <<Pattern(TRUE, 1..MaxPkgs)>>,
     <<Pattern(FALSE, {}), Pattern(TRUE, {2})>>}

UpdatesFilters ==
    [include : PatternLists,
     exclude : {<<>>, <<Pattern(FALSE, {})>>, <<Pattern(TRUE, {1})>>},
     allow_repo : BOOLEAN,
     allow_aur : BOOLEAN,
     packages : {<<>>, <<2>>, <<1, MaxPkgs + 1>>}]

InitUpdates ==
    /\ upc = "call"
    /\ uin \in [file : UpdatesManifests, filter : UpdatesFilters]
    /\ uout = [ok |-> FALSE]
    /\ rpc = "call"
    /\ rin = [package |-> InstalledPackage(1, 1, NoRepository), repo_info |-> NoInfo,
              aur_info |-> NoInfo, fail |-> {}]
    /\ rout = ResolveErr
    /\ BuildIdle
    /\ SpaceIdle
    /\ FirmwareIdle
    /\ PlanIdle
    /\ CapacityIdle

\* One call of collect_updates.
CollectUpdates ==
    /\ upc = "call"
    /\ uout' = collect_updates(uin.file, uin.filter)
    /\ upc' = "return"
    /\ UNCHANGED <<uin, resolve_vars, build_vars, space_vars, firmware_vars, plan_vars,
                   capacity_vars>>

NextUpdates == CollectUpdates

SpecUpdates == InitUpdates /\ [][NextUpdates]_vars

\* ------------------------------------------------ claims on collect_updates
\* The conditions under which a manifest package is to be returned.
IncludeGiven == uin.filter.include # <<>>
MatchesSome(patterns, name) == \E i \in DOMAIN patterns : is_match(patterns[i], name)
ToBeReturned(entry) ==
    /\ entry.update_available
    /\ uin.filter.packages # <<>> =>
          \E i \in DOMAIN uin.filter.packages : uin.filter.packages[i] = entry.name
    /\ ~uin.filter.allow_repo => entry.source # "PACMAN"
    /\ ~uin.filter.allow_aur => entry.source # "AUR"
    /\ IncludeGiven => MatchesSome(uin.filter.include, entry.name)
    /\ ~MatchesSome(uin.filter.exclude, entry.name)

\* C28: a successful collect_updates returns one entry for each manifest
\* package that has an update, is in the --package set when one is given,
\* is not from a disallowed source, matches an --include pattern when
\* include patterns are given and matches no --exclude pattern, and no other
\* entry; each entry carries the package's installed_version and
\* newer_version.
C28_ReturnsExactlyTheFiltered ==
    (upc = "return" /\ uout.ok) =>
        /\ \A i \in DOMAIN uin.file.packages :
              ToBeReturned(uin.file.packages[i]) <=>
                  \E j \in DOMAIN uout.updates :
                      uout.updates[j].name = uin.file.packages[i].name
        /\ \A j \in DOMAIN uout.updates :
              \E i \in DOMAIN uin.file.packages :
                  /\ uin.file.packages[i].name = uout.updates[j].name
                  /\ uin.file.packages[i].installed_version = uout.updates[j].installed
                  /\ uin.file.packages[i].newer_version = uout.updates[j].available
        /\ \A j, k \in DOMAIN uout.updates :
              uout.updates[j].name = uout.updates[k].name => j = k

\* ------------------------------------------ claims on the entry invariants
\* The comparisons resolve_package made for the call, and the arm it took.
RepoCmp ==
    IF rin.repo_info.some
    THEN compare_versions(rin.package.version, rin.repo_info.version, "repo" \in rin.fail)
    ELSE NoCmp
AurCmp ==
    IF rin.aur_info.some
    THEN compare_versions(rin.package.version, rin.aur_info.version, "aur" \in rin.fail)
    ELSE NoCmp
TakenArm == MatchArm(rin.repo_info, RepoCmp, rin.aur_info, AurCmp)

\* C29: in every entry resolve_package returns, update_available implies
\* that the source is Pacman or Aur, that this source knows the package,
\* that newer_version is the version it advertises and that the oracle
\* orders installed_version strictly below it; a Local or Unknown source
\* implies no update and newer_version = installed_version; and the
\* catch-all arm of the match is not the one taken.
C29_EntryInvariants ==
    Resolved =>
        /\ rout.update_available =>
              /\ rout.source \in {"Pacman", "Aur"}
              /\ ChosenInfo.some
              /\ rout.newer_version = ChosenInfo.version
              /\ compare_versions(rout.installed_version, rout.newer_version, FALSE) = "Less"
        /\ rout.source \in {"Local", "Unknown"} =>
              /\ ~rout.update_available
              /\ rout.newer_version = rout.installed_version
        /\ TakenArm # "catch_all"

\* Both sources know the package, the archive is ahead of the repository
\* and of the installed version: an update from the archive.
C29_Witness ==
    /\ Resolved
    /\ BothInfo
    /\ TakenArm = "both"
    /\ rout.update_available
    /\ rout.source = "Aur"
    /\ rout.installed_version < rout.newer_version
    /\ rin.repo_info.version < rin.aur_info.version

\* A package neither source knows: Local, no update.
C29_WitnessLocal ==
    /\ Resolved
    /\ TakenArm = "neither"
    /\ rout.source = "Local"
    /\ ~rout.update_available
    /\ rout.newer_version = rout.installed_version

\* ------------------------------------- build_manifest on sizes up to u64::MAX
\* Sizes at the points where install * 3 starts to saturate, where half of
\* the saturated triple falls below the install size, and at the maximum.
WideSizes == {1, U64_MAX \div 3 + 1, U64_MAX \div 2 + 2, U64_MAX}

WideRepoInfos ==
    {NoInfo,
     VersionInfo(2, None, U64_MAX \div 3 + 1),
     VersionInfo(2, U64_MAX \div 2 + 2, None),
     VersionInfo(2, 1, U64_MAX),
     VersionInfo(2, U64_MAX, U64_MAX)}
WideAurInfos == {NoInfo, VersionInfo(3, U64_MAX, None)}

\* build_manifest entered with packages 1..n, all installed at version 1.
InitWide ==
    /\ rpc = "call"
    /\ rin = [package |-> InstalledPackage(1, 1, NoRepository), repo_info |-> NoInfo,
              aur_info |-> NoInfo, fail |-> {}]
    /\ rout = ResolveErr
    /\ \E n \in 0..MaxPkgs :
         /\ packages = [i \in 1..n |-> InstalledPackage(i, 1, "pacman")]
         /\ repo_versions \in [1..n -> WideRepoInfos]
         /\ aur_versions \in [1..n -> WideAurInfos]
         /\ oracle \in [1..n -> ManifestOracles]
    /\ min_free_bytes \in {0} \cup WideSizes
    /\ bpc = "loop"
    /\ idx = 1
    /\ entries = EmptyMap
    /\ repo_candidates = 0
    /\ aur_candidates = 0
    /\ updates_available = 0
    /\ download_total = 0
    /\ build_total = 0
    /\ install_total = 0
    /\ transient_total = 0
    /\ metadata = NoMetadata
    /\ ExtIdle

SpecWide == InitWide /\ [][NextManifest]_vars

\* ------------------------------------------------ claims on size arithmetic
\* min(n, u64::MAX)
Saturated(n) == IF n > U64_MAX THEN U64_MAX ELSE n

\* C30: for sizes over the whole u64 range, every entry from the repository
\* has build_size_estimate >= install_size_estimate, every entry's
\* transient_size_estimate is at least its download, build and install
\* component, and the totals and required_space_total are the exact sums
\* capped at u64::MAX.
C30_SizesMonotoneAndSaturating ==
    /\ \A n \in DOMAIN entries :
          LET e == entries[n]
          IN  /\ (e.source = "Pacman" /\ e.build_size_estimate # None
                    /\ e.install_size_estimate # None) =>
                     e.build_size_estimate >= e.install_size_estimate
              /\ e.transient_size_estimate # None =>
                    /\ e.transient_size_estimate >= UnwrapOr0(e.download_size_selected)
                    /\ e.transient_size_estimate >= UnwrapOr0(e.build_size_estimate)
                    /\ e.transient_size_estimate >= UnwrapOr0(e.install_size_estimate)
                    /\ e.transient_size_estimate <= U64_MAX
    /\ download_total = Saturated(SumField(Updatable, "download_size_selected"))
    /\ build_total = Saturated(SumField(Updatable, "build_size_estimate"))
    /\ install_total = Saturated(SumField(Updatable, "install_size_estimate"))
    /\ transient_total = Saturated(SumField(Updatable, "transient_size_estimate"))
    /\ Built =>
          metadata.required_space_total = Saturated(transient_total + min_free_bytes)

====
